---- MODULE Spec2Model ----
(***************************************************************************)
(* RustyLisp: the tree-walking evaluator (src/src/evaluate.rs), its        *)
(* environment frames, the function objects (src/src/functions.rs) and     *)
(* the built-in library (src/src/built_in_functions.rs), driven by the     *)
(* read-eval-print loop (src/src/main.rs), which reads a line of text and  *)
(* hands it to the tokenizer (src/src/tokenizer.rs) and the parser         *)
(* (src/src/parser.rs).                                                    *)
(*                                                                         *)
(* The recursive function `evaluate` is modelled as a machine with an      *)
(* explicit stack: `stack` holds the pending activations of `evaluate`     *)
(* and `Function::call` (the host call stack), `mode` says whether the     *)
(* machine is about to evaluate `tree` in frame `env` ("eval"), is         *)
(* returning `val` to the activation on top of the stack ("ret"), is about *)
(* to invoke the function of the top activation ("apply"), waits at the    *)
(* prompt ("idle"), has died of a panic ("panic") or has left the loop     *)
(* ("exit").                                                               *)
(*                                                                         *)
(* Frames are Rc<RefCell<Environment>> cells: `frames[i].alive` is FALSE   *)
(* once the last strong reference to cell i is gone.  A user function      *)
(* holds a Weak reference (functions.rs:56), so it does not keep its       *)
(* frame alive.                                                            *)
(***************************************************************************)
EXTENDS Integers, Sequences, FiniteSets, TLC

\* ------------------------------------------------------------------ bounds
\* frames ever allocated in one session (built-ins and global included)
MaxFrames == 6
\* elements of a list handed to a built-in
MaxLen == 2
\* arguments handed to a built-in
MaxArgs == 2

\* ------------------------------------------------------- LispExpression
Integer(n) == [t |-> "Integer", n |-> n]
Symbol(s) == [t |-> "Symbol", s |-> s]
List(xs) == [t |-> "List", xs |-> xs]

\* ----------------------------------------------------------- LispOutput
Void == [o |-> "Void"]
IntegerV(n) == [o |-> "Integer", n |-> n]
BoolV(b) == [o |-> "Bool", b |-> b]
ListV(xs) == [o |-> "List", xs |-> xs]
BuiltInV(name) == [o |-> "BuiltIn", name |-> name]
\* LispFunction::Function: parameters, body and the Weak enclosing frame
LambdaV(ps, body, frame) ==
    [o |-> "Lambda", parameters |-> ps, body |-> body, enclosing_frame |-> frame]

IsFunction(v) == v.o \in {"Lambda", "BuiltIn"}

\* a panic!() of the Rust code, carried as the outcome of an operation
Panic(msg) == [o |-> "Panic", msg |-> msg]
IsPanic(v) == v.o = "Panic"

\* absence of a key in a HashMap<String, LispOutput>
NoBinding == [o |-> "NoBinding"]

\* Option::None of parent_env
None == 0

\* -------------------------------------------------------------- symbols
BuiltInFunctionNames ==
    {"+", "-", "*", "/", "equal?", "<", "<=", ">", ">=", "list", "car", "cdr",
     "list?", "length", "list-ref", "append", "map", "filter"}

BuiltInNames == BuiltInFunctionNames \cup {"#t", "#f", "nil"}

UserNames == {"x", "y", "z", "f", "a", "b", "begin", "reduce", "exit"}

Names == BuiltInNames \cup UserNames

\* HashMap::new()
EmptyBindings == [n \in Names |-> NoBinding]

\* built_in_function_bindings()
built_in_function_bindings ==
    [n \in Names |->
        IF n \in BuiltInFunctionNames THEN BuiltInV(n)
        ELSE IF n = "#t" THEN BoolV(TRUE)
        ELSE IF n = "#f" THEN BoolV(FALSE)
        ELSE IF n = "nil" THEN ListV(<< >>)
        ELSE NoBinding]

\* the two frames of Environment::global_env()
BuiltInsEnv == 1
GlobalEnv == 2

Environment(bindings, parent_env) ==
    [alive |-> TRUE, bindings |-> bindings, parent_env |-> parent_env]

\* a cell whose strong count reached zero: the Environment is dropped
Dropped == [alive |-> FALSE, bindings |-> EmptyBindings, parent_env |-> None]

\* ---------------------------------------------------------- Environment
\* get that does not consult the parent
get_current_only(fs, e, var) ==
    IF fs[e].bindings[var] = NoBinding
    THEN Panic("variable not found in any environment")
    ELSE fs[e].bindings[var]

RECURSIVE get(_, _, _)
get(fs, e, var) ==
    IF fs[e].bindings[var] = NoBinding
    THEN IF fs[e].parent_env = None
         THEN Panic("variable not found in any environment")
         ELSE get(fs, fs[e].parent_env, var)
    ELSE fs[e].bindings[var]

\* set that writes the parent's binding when the frame has a parent
set_in_parent(fs, e, var, v) ==
    IF fs[e].parent_env = None THEN [fs EXCEPT ![e].bindings[var] = v]
    ELSE [fs EXCEPT ![fs[e].parent_env].bindings[var] = v]

set(fs, e, var, v) == [fs EXCEPT ![e].bindings[var] = v]

\* del that removes the binding from the nearest frame that has it
RECURSIVE del_in_chain(_, _, _)
del_in_chain(fs, e, var) ==
    IF fs[e].bindings[var] # NoBinding
    THEN [fs |-> [fs EXCEPT ![e].bindings[var] = NoBinding],
          out |-> fs[e].bindings[var]]
    ELSE IF fs[e].parent_env # None THEN del_in_chain(fs, fs[e].parent_env, var)
    ELSE [fs |-> fs, out |-> Panic("variable not found in environment!")]

\* del and set_bang return the new frames and the output (or the panic)
del(fs, e, var) ==
    IF fs[e].bindings[var] = NoBinding
    THEN [fs |-> fs, out |-> Panic("variable not found in environment!")]
    ELSE [fs |-> [fs EXCEPT ![e].bindings[var] = NoBinding],
          out |-> fs[e].bindings[var]]

\* set_bang that binds in the current frame, as define does
set_bang_current(fs, e, var, v) ==
    [fs |-> [fs EXCEPT ![e].bindings[var] = v], out |-> v]

RECURSIVE set_bang(_, _, _, _)
set_bang(fs, e, var, v) ==
    IF fs[e].bindings[var] # NoBinding
    THEN [fs |-> [fs EXCEPT ![e].bindings[var] = v], out |-> v]
    ELSE IF fs[e].parent_env # None
         THEN set_bang(fs, fs[e].parent_env, var, v)
         ELSE [fs |-> fs, out |-> Panic("variable does not exist in any environment!")]

\* a drop that first hands the bindings of the cell to its parent
drop_into_parent(fs, e) ==
    LET parent == fs[e].parent_env
    IN  [fs EXCEPT ![e] = Dropped,
                   ![parent].bindings =
                        [n \in Names |-> IF fs[e].bindings[n] # NoBinding
                                         THEN fs[e].bindings[n]
                                         ELSE fs[parent].bindings[n]]]

\* the local `new_env` of a `let` or of Function::call goes out of scope:
\* one Rc of cell e is dropped, and the cell dies unless another Rc, the
\* parent_env of a live frame, still holds it.  (The parent of e stays held
\* by the activation or the frame that held it before.)
drop(fs, e) ==
    IF \E c \in DOMAIN fs : fs[c].alive /\ fs[c].parent_env = e
    THEN fs
    ELSE [fs EXCEPT ![e] = Dropped]

\* ------------------------------------------------------ built-in library
MINIMUM_REQUIRED_DIVISION_ARGUMENTS == 2
REQUIRED_CAR_ARGUMENTS == 1
REQUIRED_CDR_ARGUMENTS == 1
REQUIRED_IS_LIST_ARGUMENTS == 1
REQUIRED_LIST_LENGTH_ARGUMENTS == 1
REQUIRED_LIST_REF_ARGUMENTS == 2
REQUIRED_MAP_ARGUMENTS == 2
REQUIRED_FILTER_ARGUMENTS == 2

\* unwrap_lisp_outputs panics on the first argument that is no Integer
AllIntegers(args) == \A j \in DOMAIN args : args[j].o = "Integer"

\* check_output_arguments: TRUE when the call has the required length
check_output_arguments(args, number_of_args) == Len(args) = number_of_args

WrongCount == "incorrect nubmer of arguements"

\* i64 arithmetic; the expressions evaluated here stay far from overflow
RECURSIVE Sum(_)
Sum(args) == IF args = << >> THEN 0 ELSE args[1].n + Sum(Tail(args))

RECURSIVE Product(_)
Product(args) == IF args = << >> THEN 1 ELSE args[1].n * Product(Tail(args))

\* i64 division truncates toward zero
Quotient(a, b) ==
    LET abs(n) == IF n < 0 THEN 0 - n ELSE n
        q == abs(a) \div abs(b)
    IN  IF (a < 0) = (b < 0) THEN q ELSE 0 - q

add(args) ==
    IF AllIntegers(args) THEN IntegerV(Sum(args))
    ELSE Panic("Only expecting integer arguments")

sub(args) ==
    IF Len(args) = 1
    THEN IF args[1].o = "Integer" THEN IntegerV(0 - args[1].n)
         ELSE Panic("Only expecting integer arugments")
    ELSE IF args = << >>
    THEN Panic("called Option::unwrap() on a None value")
    ELSE IF AllIntegers(args) THEN IntegerV(args[1].n - Sum(Tail(args)))
    ELSE Panic("Only expecting integer arguments")

mul(args) ==
    IF AllIntegers(args) THEN IntegerV(Product(args))
    ELSE Panic("Only expecting integer arguments")

div(args) ==
    IF Len(args) < MINIMUM_REQUIRED_DIVISION_ARGUMENTS
    THEN Panic("Need two or more arguments to apply division function")
    ELSE IF ~AllIntegers(args) THEN Panic("Only expecting integer arguments")
    ELSE IF Product(Tail(args)) = 0 THEN Panic("attempt to divide by zero")
    ELSE IntegerV(Quotient(args[1].n, Product(Tail(args))))

\* the closures handed to comparator
Compare(func, a, b) ==
    CASE func = "==" -> a = b
      [] func = "<" -> a < b
      [] func = "<=" -> a <= b
      [] func = ">" -> a > b
      [] func = ">=" -> a >= b

\* comparator: `0..numbers.len() - 1` underflows on an empty vector, which
\* panics on the subtraction or on numbers[0]
comparator(func, args) ==
    IF ~AllIntegers(args) THEN Panic("Only expecting integer arguments")
    ELSE IF args = << >> THEN Panic("attempt to subtract with overflow")
    ELSE BoolV(\A j \in 1..(Len(args) - 1) : Compare(func, args[j].n, args[j + 1].n))

equal_compare(args) == comparator("==", args)
less_than_compare(args) == comparator("<", args)
less_than_or_equal_compare(args) == comparator("<=", args)
greater_than_compare(args) == comparator(">", args)
greater_than_or_equal_compare(args) == comparator(">=", args)

\* a LispList is modelled by the sequence of its elements
make_list(args) == ListV(args)

car_func(args) ==
    IF ~check_output_arguments(args, REQUIRED_CAR_ARGUMENTS) THEN Panic(WrongCount)
    ELSE IF args[1].o # "List" THEN Panic("expecting a cons cell!")
    ELSE IF args[1].xs = << >> THEN Panic("lisp list is empty!")
    ELSE args[1].xs[1]

cdr_func(args) ==
    IF ~check_output_arguments(args, REQUIRED_CDR_ARGUMENTS) THEN Panic(WrongCount)
    ELSE IF args[1].o # "List" THEN Panic("expecting a cons cell!")
    ELSE IF args[1].xs = << >> THEN Panic("lisp list is empty!")
    ELSE ListV(Tail(args[1].xs))

is_list_func(args) ==
    IF ~check_output_arguments(args, REQUIRED_IS_LIST_ARGUMENTS) THEN Panic(WrongCount)
    ELSE BoolV(args[1].o = "List")

list_length_func(args) ==
    IF ~check_output_arguments(args, REQUIRED_LIST_LENGTH_ARGUMENTS) THEN Panic(WrongCount)
    ELSE IF args[1].o # "List" THEN Panic("expecting lisp list to get length")
    ELSE IntegerV(Len(args[1].xs))

\* a LispList::get that counts the elements from 1
LispList_get_from_one(list, index) ==
    IF index < 1 \/ index > Len(list) THEN Panic("index out of bounds!")
    ELSE list[index]

\* LispList::get: Nil panics, index 0 is the car, else the cdr at index - 1
RECURSIVE LispList_get(_, _)
LispList_get(list, index) ==
    IF list = << >> THEN Panic("index out of bounds!")
    ELSE IF index = 0 THEN Head(list)
    ELSE LispList_get(Tail(list), index - 1)

list_ref_func(args) ==
    IF ~check_output_arguments(args, REQUIRED_LIST_REF_ARGUMENTS) THEN Panic(WrongCount)
    ELSE IF args[2].o # "Integer"
    THEN Panic("expecting an integer to use as index in list")
    ELSE IF args[2].n < 0 THEN Panic("negative indicies are not supported!")
    ELSE IF args[1].o # "List" THEN Panic("expecting a cons cell to index into")
    ELSE LispList_get(args[1].xs, args[2].n)

\* a LispList::append that forgets the lists after the first non-empty one
LispList_append_first(lists) ==
    LET full == {j \in DOMAIN lists : lists[j] # << >>}
    IN  IF full = {} THEN << >>
        ELSE lists[CHOOSE j \in full : \A c \in full : j <= c]

\* LispList::append: a Nil head is skipped, a Cons head gives its car
\* followed by the append of its cdr and the other lists
RECURSIVE LispList_append(_)
LispList_append(lists) ==
    IF Len(lists) = 0 THEN << >>
    ELSE IF lists[1] = << >> THEN LispList_append(Tail(lists))
    ELSE LET new_args == <<Tail(lists[1])>> \o Tail(lists)
         IN  <<Head(lists[1])>> \o LispList_append(new_args)

append_func(args) ==
    IF \E j \in DOMAIN args : args[j].o # "List"
    THEN Panic("expecting only lisp lists for append built-in!")
    ELSE ListV(LispList_append([j \in DOMAIN args |-> args[j].xs]))

\* the built-ins that call no function
BuiltIn(name, args) ==
    CASE name = "+" -> add(args)
      [] name = "-" -> sub(args)
      [] name = "*" -> mul(args)
      [] name = "/" -> div(args)
      [] name = "equal?" -> equal_compare(args)
      [] name = "<" -> less_than_compare(args)
      [] name = "<=" -> less_than_or_equal_compare(args)
      [] name = ">" -> greater_than_compare(args)
      [] name = ">=" -> greater_than_or_equal_compare(args)
      [] name = "list" -> make_list(args)
      [] name = "car" -> car_func(args)
      [] name = "cdr" -> cdr_func(args)
      [] name = "list?" -> is_list_func(args)
      [] name = "length" -> list_length_func(args)
      [] name = "list-ref" -> list_ref_func(args)
      [] name = "append" -> append_func(args)

HigherOrder == {"map", "filter"}

\* ------------------------------------------------------------- programs
Define(s, e) == List(<<Symbol("define"), Symbol(s), e>>)
Lambda(ps, body) == List(<<Symbol("lambda"), List(ps), body>>)
Let(defs, body) == List(<<Symbol("let"), List(defs), body>>)
SetBang(s, e) == List(<<Symbol("set!"), Symbol(s), e>>)
Del(s) == List(<<Symbol("del"), Symbol(s)>>)
Bind(s, e) == List(<<Symbol(s), e>>)

App(xs) == List(xs)
True == Symbol("#t")
False == Symbol("#f")

\* a closure over x, the identity, and a closure that escapes its `let`
LambdaX == Lambda(<< >>, Symbol("x"))
Identity == Lambda(<<Symbol("a")>>, Symbol("a"))
EscapingLambda == Let(<<Bind("y", Integer(1))>>, Lambda(<< >>, Symbol("y")))

\* environment: lookup, define, set!, del in the global frame and in a child
EnvironmentPrograms ==
    { Integer(1),
      Symbol("x"),
      Symbol("z"),
      List(<< >>),
      Define("x", Integer(1)),
      Define("x", Integer(2)),
      SetBang("x", Integer(2)),
      SetBang("z", Integer(1)),
      SetBang("cdr", Integer(1)),
      Del("x"),
      Let(<<Bind("x", Integer(3))>>, Symbol("x")),
      Let(<<Bind("y", Integer(1))>>, Symbol("x")),
      Let(<<Bind("y", Integer(1))>>, Define("x", Integer(3))),
      Let(<<Bind("y", Integer(1))>>, SetBang("x", Integer(3))),
      Let(<<Bind("x", Integer(1))>>, SetBang("x", Integer(3))),
      Let(<<Bind("y", Integer(1))>>, Del("x")) }

\* (define x 1) (define f (lambda () x)) (define x 2) (f), as the operands
\* of one call of `list`
Rebinding ==
    App(<<Symbol("list"), Define("x", Integer(1)), Define("f", LambdaX),
          Define("x", Integer(2)), App(<<Symbol("f")>>)>>)

\* closures: lexical scope, escaping closures, argument counts
ClosurePrograms ==
    { Define("f", LambdaX),
      App(<<Symbol("f")>>),
      Let(<<Bind("x", Integer(3))>>, App(<<Symbol("f")>>)),
      Let(<<Bind("x", Integer(3))>>, App(<<LambdaX>>)),
      Rebinding,
      Define("f", EscapingLambda),
      App(<<Identity, Integer(1)>>),
      App(<<Identity, Integer(1), Integer(2)>>),
      App(<<Lambda(<<Symbol("a")>>, Integer(1))>>) }

\* evaluation order: application operands, and / or, if
OperandOrder ==
    App(<<Define("z", Symbol("list")), Define("y", Integer(2)), Symbol("y")>>)
ShortAnd == List(<<Symbol("and"), False, Define("b", Integer(1))>>)
ShortOr == List(<<Symbol("or"), True, Define("b", Integer(1))>>)
LateAnd == List(<<Symbol("and"), Define("y", Integer(1)), False, Define("b", Integer(1))>>)
LateOr == List(<<Symbol("or"), Define("y", Integer(1)), True, Define("b", Integer(1))>>)
FullAnd == List(<<Symbol("and"), True, Define("y", Integer(1))>>)
FullOr == List(<<Symbol("or"), False, Define("y", Integer(1))>>)

OrderPrograms ==
    { Let(<<Bind("y", Integer(1))>>, OperandOrder),
      List(<<Symbol("and")>>),
      List(<<Symbol("or")>>),
      ShortAnd, ShortOr, LateAnd, LateOr, FullAnd, FullOr,
      List(<<Symbol("if"), App(<<Symbol("equal?"), Integer(1), Integer(1)>>),
             Integer(1), Integer(2)>>) }

\* if: a condition of each kind of value, the other branch a define of b
If(c, t, e) == List(<<Symbol("if"), c, t, e>>)
IfTrue == If(True, Integer(1), Define("b", Integer(1)))
IfFalse == If(False, Define("b", Integer(1)), Integer(2))
IfInteger == If(Integer(1), Define("b", Integer(1)), Integer(2))
IfList == If(App(<<Symbol("list"), True>>), Define("b", Integer(1)), Integer(2))
IfFunction == If(Symbol("car"), Define("b", Integer(1)), Integer(2))

\* let: a binding whose expression names a sibling binding
ParallelLet == Let(<<Bind("x", Integer(4)), Bind("y", Symbol("x"))>>, Symbol("y"))

\* begin and reduce, as the tests of evaluate.rs use them
Begin(es) == List(<<Symbol("begin")>> \o es)
BeginEmpty == Begin(<< >>)
BeginOne == Begin(<<Integer(1)>>)
BeginSingle == Begin(<<Define("x", Integer(2)), Symbol("x")>>)

Reduce(xs, f, init) == App(<<Symbol("reduce"), xs, f, init>>)
ReduceNonList == Reduce(Integer(1), Symbol("+"), Integer(1))
ReduceEmpty == Reduce(Symbol("nil"), Symbol("+"), Integer(0))
ReduceSum ==
    Reduce(App(<<Symbol("list"), Integer(1), Integer(2), Integer(3), Integer(4),
                 Integer(5)>>), Symbol("+"), Integer(0))

TestedPrograms ==
    { BeginEmpty, BeginOne, BeginSingle, ReduceNonList, ReduceEmpty, ReduceSum }

IfPrograms == { ParallelLet, IfTrue, IfFalse, IfInteger, IfList, IfFunction }

\* the higher-order built-ins
Map(xs, f) == App(<<Symbol("map"), xs, f>>)
MapIdentity == Map(App(<<Symbol("list"), Integer(1), Integer(2)>>), Identity)
MapNegate == Map(App(<<Symbol("list"), Integer(1), Integer(2)>>), Symbol("-"))
MapNil == Map(Symbol("nil"), Symbol("+"))
MapNonList == Map(Integer(1), Symbol("+"))

LibraryPrograms ==
    { MapIdentity, MapNegate, MapNil, MapNonList,
      App(<<Symbol("filter"), App(<<Symbol("list"), Integer(1), Integer(2)>>),
            Lambda(<<Symbol("a")>>, App(<<Symbol("equal?"), Symbol("a"), Integer(1)>>))>>) }

\* set! in a closure body: a counter in a `let` frame that one closure
\* increments twice and another closure reads, and a closure over the
\* global frame
Increment == Lambda(<< >>, SetBang("a", App(<<Symbol("+"), Symbol("a"), Integer(1)>>)))
SharedCounter ==
    Let(<<Bind("a", Integer(1))>>,
        App(<<Lambda(<<Symbol("z")>>,
                     App(<<Symbol("list"), App(<<Symbol("z")>>), Symbol("a"),
                           App(<<Symbol("z")>>)>>)),
              Increment>>))
GlobalSetter == App(<<Lambda(<< >>, SetBang("x", Integer(3)))>>)

SetBangPrograms == { SharedCounter, GlobalSetter }

\* special forms with an element too few and an element too many; where
\* the form has an operand, that operand is a define of b
DefineB == Define("b", Integer(1))
ArityPrograms ==
    { List(<<Symbol("define"), Symbol("x")>>),
      List(<<Symbol("define"), Symbol("x"), DefineB, Integer(2)>>),
      List(<<Symbol("lambda"), List(<<Symbol("a")>>)>>),
      List(<<Symbol("lambda"), List(<<Symbol("a")>>), DefineB, Symbol("a")>>),
      List(<<Symbol("let"), List(<<Bind("y", DefineB)>>)>>),
      List(<<Symbol("let"), List(<<Bind("y", DefineB)>>), Symbol("y"), Symbol("y")>>),
      List(<<Symbol("set!"), Symbol("x")>>),
      List(<<Symbol("set!"), Symbol("x"), DefineB, Integer(2)>>),
      List(<<Symbol("if"), DefineB, Integer(1)>>),
      List(<<Symbol("if"), DefineB, Integer(1), Integer(2), Integer(3)>>),
      List(<<Symbol("del")>>),
      List(<<Symbol("del"), Symbol("x"), Symbol("y")>>) }

\* let: bindings that are no list of a symbol and an expression
LetExtra == Let(<<List(<<Symbol("x"), Integer(1), Integer(2)>>)>>, Symbol("x"))
LetShapePrograms ==
    { Let(<<Integer(1)>>, Integer(1)),
      Let(<<List(<< >>)>>, Integer(1)),
      Let(<<List(<<Symbol("x")>>)>>, Integer(1)),
      Let(<<List(<<Integer(1), Integer(2)>>)>>, Integer(1)),
      LetExtra }

\* lambda: a parameter that is no symbol, and a parameter named twice
RepeatedParameter == Lambda(<<Symbol("a"), Symbol("a")>>, Symbol("a"))
ParameterPrograms ==
    { Lambda(<<Integer(1)>>, Integer(1)),
      Lambda(<<Symbol("a"), Integer(1)>>, Symbol("a")),
      RepeatedParameter,
      App(<<RepeatedParameter, Integer(1), Integer(2)>>) }

\* invocations: a closure that calls itself once, handed to itself, and a
\* closure called twice whose first call defines z in its frame and whose
\* second call looks z up
Countdown ==
    Lambda(<<Symbol("f"), Symbol("a")>>,
           If(App(<<Symbol("equal?"), Symbol("a"), Integer(0)>>),
              Integer(0),
              App(<<Symbol("list"), App(<<Symbol("f"), Symbol("f"), Integer(0)>>),
                    Symbol("a")>>)))
NestedCalls ==
    App(<<Lambda(<<Symbol("f")>>, App(<<Symbol("f"), Symbol("f"), Integer(1)>>)),
          Countdown>>)
DefineOrLookup ==
    Lambda(<<Symbol("a")>>,
           If(App(<<Symbol("equal?"), Symbol("a"), Integer(0)>>),
              Symbol("z"),
              Define("z", Integer(1))))
SuccessiveCalls ==
    App(<<Lambda(<<Symbol("f")>>,
                 App(<<Symbol("list"), App(<<Symbol("f"), Integer(1)>>),
                       App(<<Symbol("f"), Integer(0)>>)>>)),
          DefineOrLookup>>)

\* a define in the body of a `let` and in the body of a closure
LetDefine == Let(<<Bind("y", Integer(1))>>, Define("x", Integer(3)))
CallDefine == App(<<Lambda(<<Symbol("a")>>, Define("y", Symbol("a"))), Integer(1)>>)

InvocationPrograms == { NestedCalls, SuccessiveCalls, CallDefine }

\* shadowing a built-in in the global frame: define, lookup, del, lookup;
\* a second del; and the same after a set! of the built-in name
ShadowCar ==
    App(<<Symbol("list"), Define("car", Integer(1)), Symbol("car"), Del("car"),
          Symbol("car")>>)
ShadowCarTwice ==
    App(<<Symbol("list"), Define("car", Integer(1)), Del("car"), Del("car")>>)
ShadowCdr ==
    App(<<Symbol("list"), SetBang("cdr", Integer(1)), Define("cdr", Integer(2)),
          Del("cdr"), Symbol("cdr")>>)

ShadowPrograms == { ShadowCar, ShadowCarTwice, ShadowCdr }

\* a set! of an unbound name whose expression has a side effect
SetBangUnbound == SetBang("z", Define("y", Integer(1)))

\* the expressions handed to `evaluate` with the persistent global frame
Programs ==
    EnvironmentPrograms \cup ClosurePrograms \cup OrderPrograms \cup LibraryPrograms
        \cup IfPrograms \cup TestedPrograms \cup SetBangPrograms \cup ArityPrograms
        \cup LetShapePrograms \cup ParameterPrograms \cup InvocationPrograms
        \cup ShadowPrograms \cup { SetBangUnbound }

\* ---------------------------------------------------------------- state
VARIABLES
    frames,     \* the Rc<RefCell<Environment>> cells ever allocated
    stack,      \* pending activations of evaluate / Function::call, bottom first
    mode,       \* "idle", "tokenize", "parse", "eval", "ret", "apply", "panic", "exit"
    tree,       \* the expression of the current activation of evaluate
    env,        \* the frame of the current activation of evaluate
    val,        \* the LispOutput being returned
    panicMsg,   \* the message of the panic that ended the process
    input,      \* the line read by the current iteration of the repl
    eof,        \* the standard input is at its end
    tokenized   \* the Vec<LispToken> that tokenize returned for input

vars == <<frames, stack, mode, tree, env, val, panicMsg, input, eof, tokenized>>

\* a pending activation: what it evaluates (tree, env) and its locals
Activation(k, t, e) ==
    [k |-> k, tree |-> t, env |-> e, i |-> 0, bindings |-> EmptyBindings,
     new_env |-> None, fn |-> Void, args |-> << >>, out |-> << >>]

Top == stack[Len(stack)]
Pop == SubSeq(stack, 1, Len(stack) - 1)

SpecialForms == {"define", "lambda", "if", "and", "or", "del", "let", "set!"}

HeadOf(t) == t.xs[1]
IsForm(t, name) ==
    t.t = "List" /\ Len(t.xs) > 0 /\ HeadOf(t).t = "Symbol" /\ HeadOf(t).s = name

\* a check that lets more elements than the arity pass
check_arguments_at_least(expressions, number_of_args) ==
    Len(expressions) >= number_of_args

\* check_arguments: TRUE when the special form has the required length
check_arguments(expressions, number_of_args) == Len(expressions) = number_of_args

REQUIRED_DEFINE_ARGUMENTS == 3
REQUIRED_LAMBDA_ARGUMENTS == 3
REQUIRED_IF_ARGUMENTS == 4
REQUIRED_DEL_ARGUMENTS == 2
REQUIRED_LET_ARGUMENTS == 3
REQUIRED_SET_BANG_ARGUMENTS == 3

BadArguments == "special form was not supplied with correct number of arugments"

\* the machine dies: the panic unwinds to main and the process exits; the
\* other variables keep the state at the point of the panic
Die(msg) ==
    /\ mode' = "panic"
    /\ panicMsg' = msg
    /\ UNCHANGED <<frames, stack, tree, env, val, input, eof, tokenized>>

\* the machine dies inside an operation on the frames: they stay as the
\* operation left them
DieIn(msg, fs) ==
    /\ mode' = "panic"
    /\ panicMsg' = msg
    /\ frames' = fs
    /\ UNCHANGED <<stack, tree, env, val, input, eof, tokenized>>

\* the current activation returns v to its caller
Return(v) ==
    /\ mode' = "ret"
    /\ val' = v
    /\ UNCHANGED <<stack, tree, env, panicMsg, input, eof, tokenized>>

\* the current activation calls evaluate(t, e), itself pending as k
Descend(k, t, e) ==
    /\ mode' = "eval"
    /\ stack' = Append(stack, k)
    /\ tree' = t
    /\ env' = e
    /\ UNCHANGED <<val, panicMsg, input, eof, tokenized>>

\* the pending activation on top of the stack resumes as k and calls
\* evaluate(t, e)
Continue(k, t, e) ==
    /\ mode' = "eval"
    /\ stack' = Append(Pop, k)
    /\ tree' = t
    /\ env' = e
    /\ UNCHANGED <<val, panicMsg, input, eof, tokenized>>

\* the pending activation on top of the stack finishes and returns v
Finish(v) ==
    /\ mode' = "ret"
    /\ val' = v
    /\ stack' = Pop
    /\ tree' = Top.tree
    /\ env' = Top.env
    /\ UNCHANGED <<panicMsg, input, eof, tokenized>>

\* ------------------------------------------------------------ tokenizer
\* a &str is modelled by the sequence of its characters
LeftParen == [k |-> "LeftParen"]
RightParen == [k |-> "RightParen"]
IntegerT(n) == [k |-> "Integer", n |-> n]
SymbolT(s) == [k |-> "Symbol", s |-> s]

\* the sequences of ss one after the other
RECURSIVE Flatten(_)
Flatten(ss) ==
    IF Len(ss) = 0 THEN << >>
    ELSE IF Len(ss) = 1 THEN ss[1]
    ELSE LET half == Len(ss) \div 2
         IN  Flatten(SubSeq(ss, 1, half)) \o Flatten(SubSeq(ss, half + 1, Len(ss)))

\* the source without its comments: of each line of source.split("\n") the
\* characters before the first ';' are pushed; the newline itself is not
source_without_comments(source) ==
    LET in_comment(i) ==
            \E j \in 1..i : source[j] = ";" /\ \A c \in j..i : source[c] # "\n"
    IN  Flatten([i \in 1..Len(source) |->
                    IF source[i] = "\n" \/ in_comment(i) THEN << >>
                    ELSE <<source[i]>>])

\* .replace("(", " ( ").replace(")", " ) ")
replace_parens(s) ==
    Flatten([i \in 1..Len(s) |->
                IF s[i] \in {"(", ")"} THEN <<" ", s[i], " ">> ELSE <<s[i]>>])

Whitespace == {" ", "\t", "\r", "\n"}

\* split_whitespace: the maximal runs of characters that are no whitespace
split_whitespace(s) ==
    LET starts == {i \in 1..Len(s) :
                      s[i] \notin Whitespace /\ (i = 1 \/ s[i - 1] \in Whitespace)}
        start(n) == CHOOSE i \in starts : Cardinality({c \in starts : c <= i}) = n
        end(i) == CHOOSE j \in i..Len(s) :
                      /\ \A c \in i..j : s[c] \notin Whitespace
                      /\ j = Len(s) \/ s[j + 1] \in Whitespace
    IN  [n \in 1..Cardinality(starts) |-> SubSeq(s, start(n), end(start(n)))]

DigitValue(c) ==
    CASE c = "0" -> 0 [] c = "1" -> 1 [] c = "2" -> 2 [] c = "3" -> 3
      [] c = "4" -> 4 [] c = "5" -> 5 [] c = "6" -> 6 [] c = "7" -> 7
      [] c = "8" -> 8 [] c = "9" -> 9
IsDigit(c) == c \in {"0", "1", "2", "3", "4", "5", "6", "7", "8", "9"}

RECURSIVE DecimalValue(_)
DecimalValue(digits) ==
    IF digits = << >> THEN 0
    ELSE 10 * DecimalValue(SubSeq(digits, 1, Len(digits) - 1))
         + DigitValue(digits[Len(digits)])

\* word.parse::<i64>(): an optional sign and one digit or more; the words of
\* the lines read here have few digits, far from the i64 range
parse_i64(word) ==
    LET signed == word # << >> /\ word[1] \in {"+", "-"}
        digits == IF signed THEN Tail(word) ELSE word
    IN  IF digits = << >> \/ \E j \in DOMAIN digits : ~IsDigit(digits[j])
        THEN [is_ok |-> FALSE]
        ELSE [is_ok |-> TRUE,
              n |-> IF word[1] = "-" THEN 0 - DecimalValue(digits)
                    ELSE DecimalValue(digits)]

\* word.to_string()
RECURSIVE to_string(_)
to_string(word) == IF word = << >> THEN "" ELSE word[1] \o to_string(Tail(word))

token_of(word) ==
    IF word = <<"(">> THEN LeftParen
    ELSE IF word = <<")">> THEN RightParen
    ELSE LET expression == parse_i64(word)
         IN  IF expression.is_ok THEN IntegerT(expression.n)
             ELSE SymbolT(to_string(word))

tokenize(source) ==
    LET words == split_whitespace(replace_parens(source_without_comments(source)))
    IN  [j \in DOMAIN words |-> token_of(words[j])]

\* --------------------------------------------------------------- parser
\* parse_expression and the loop of its LeftParen arm; indexes count from 1;
\* the outcome is a Panic or the next index with the expression
RECURSIVE parse_expression(_, _)
RECURSIVE parse_list(_, _, _)
parse_expression(index, tokens) ==
    LET token == tokens[index]
    IN  CASE token.k = "Integer" ->
                [o |-> "Parsed", index |-> index + 1, expression |-> Integer(token.n)]
          [] token.k = "Symbol" ->
                [o |-> "Parsed", index |-> index + 1, expression |-> Symbol(token.s)]
          [] token.k = "RightParen" ->
                Panic("unmatched right parenthesis while trying to parse expression")
          [] token.k = "LeftParen" -> parse_list(index + 1, tokens, << >>)

parse_list(index, tokens, expressions) ==
    IF index <= Len(tokens) /\ tokens[index] # RightParen
    THEN LET next == parse_expression(index, tokens)
         IN  IF IsPanic(next) THEN next
             ELSE parse_list(next.index, tokens, Append(expressions, next.expression))
    ELSE IF index > Len(tokens)
    THEN Panic("missing right parenthesis while trying to parse expression")
    ELSE [o |-> "Parsed", index |-> index + 1, expression |-> List(expressions)]

parse_first(tokens) ==
    IF Len(tokens) = 0 THEN Panic("nothing to parse!")
    ELSE parse_expression(1, tokens)

\* parse: a Panic, or the outcome whose expression is the whole token vector
parse(tokens) ==
    IF Len(tokens) = 0 THEN Panic("nothing to parse!")
    ELSE LET final == parse_expression(1, tokens)
         IN  IF IsPanic(final) THEN final
             ELSE IF final.index # Len(tokens) + 1
             THEN Panic("did not parse expression completely")
             ELSE final

\* ----------------------------------------------------- lines at the prompt
\* the characters of the symbols the lines are written with
Spelling(s) ==
    CASE s = "+" -> <<"+">>
      [] s = "-" -> <<"-">>
      [] s = "*" -> <<"*">>
      [] s = "/" -> <<"/">>
      [] s = "equal?" -> <<"e", "q", "u", "a", "l", "?">>
      [] s = "<" -> <<"<">>
      [] s = "<=" -> <<"<", "=">>
      [] s = ">" -> <<">">>
      [] s = ">=" -> <<">", "=">>
      [] s = "list" -> <<"l", "i", "s", "t">>
      [] s = "car" -> <<"c", "a", "r">>
      [] s = "cdr" -> <<"c", "d", "r">>
      [] s = "list?" -> <<"l", "i", "s", "t", "?">>
      [] s = "length" -> <<"l", "e", "n", "g", "t", "h">>
      [] s = "list-ref" -> <<"l", "i", "s", "t", "-", "r", "e", "f">>
      [] s = "append" -> <<"a", "p", "p", "e", "n", "d">>
      [] s = "map" -> <<"m", "a", "p">>
      [] s = "filter" -> <<"f", "i", "l", "t", "e", "r">>
      [] s = "#t" -> <<"#", "t">>
      [] s = "#f" -> <<"#", "f">>
      [] s = "nil" -> <<"n", "i", "l">>
      [] s = "x" -> <<"x">>
      [] s = "y" -> <<"y">>
      [] s = "z" -> <<"z">>
      [] s = "f" -> <<"f">>
      [] s = "a" -> <<"a">>
      [] s = "b" -> <<"b">>
      [] s = "begin" -> <<"b", "e", "g", "i", "n">>
      [] s = "reduce" -> <<"r", "e", "d", "u", "c", "e">>
      [] s = "exit" -> <<"e", "x", "i", "t">>
      [] s = "define" -> <<"d", "e", "f", "i", "n", "e">>
      [] s = "lambda" -> <<"l", "a", "m", "b", "d", "a">>
      [] s = "if" -> <<"i", "f">>
      [] s = "and" -> <<"a", "n", "d">>
      [] s = "or" -> <<"o", "r">>
      [] s = "del" -> <<"d", "e", "l">>
      [] s = "let" -> <<"l", "e", "t">>
      [] s = "set!" -> <<"s", "e", "t", "!">>

Digit(n) == CHOOSE c \in {"0", "1", "2", "3", "4", "5", "6", "7", "8", "9"} : DigitValue(c) = n

RECURSIVE Decimal(_)
Decimal(n) ==
    IF n < 0 THEN <<"-">> \o Decimal(0 - n)
    ELSE IF n < 10 THEN <<Digit(n)>>
    ELSE Decimal(n \div 10) \o <<Digit(n % 10)>>

\* a text of the expression e: one space between the elements of a list
RECURSIVE Source(_)
RECURSIVE SourceOfAll(_)
Source(e) ==
    CASE e.t = "Integer" -> Decimal(e.n)
      [] e.t = "Symbol" -> Spelling(e.s)
      [] e.t = "List" -> <<"(">> \o SourceOfAll(e.xs) \o <<")">>

SourceOfAll(es) ==
    IF es = << >> THEN << >>
    ELSE IF Len(es) = 1 THEN Source(es[1])
    ELSE Source(es[1]) \o <<" ">> \o SourceOfAll(Tail(es))

\* read_line keeps the newline that ends the line
Line(text) == text \o <<"\n">>

ExitText == <<"e", "x", "i", "t">>

\* lines that are no expression: unbalanced, trailing tokens, empty, comment
BrokenLines ==
    { Line(<<"(">>), Line(<<")">>), Line(<<"(", "x">>), Line(<<"x", ")">>),
      Line(<<"1", " ", "2">>), Line(<< >>), Line(<<";", "x">>) }

\* lines with a comment and with extra whitespace around an expression
CommentedLines ==
    { Line(<<" ", "1", " ", ";", "x">>), Line(<<"\t", "x", "\r">>) }

\* what read_line returns while the input is open: a line with its newline,
\* or the characters before the end of the input
Lines ==
    {Line(Source(p)) : p \in Programs} \cup BrokenLines \cup CommentedLines
        \cup {Line(ExitText)}
LastLines == {ExitText, <<"1">>, << >>}

Init ==
    /\ frames = << Environment(built_in_function_bindings, None),
                   Environment(EmptyBindings, BuiltInsEnv) >>
    /\ stack = << >>
    /\ mode = "idle"
    /\ tree = Integer(0)
    /\ env = GlobalEnv
    /\ val = Void
    /\ panicMsg = ""
    /\ input = << >>
    /\ eof = FALSE
    /\ tokenized = << >>

\* main.rs repl: the prompt, read_string, the comparison with "exit", then
\* tokenize and parse, up to the call of evaluate in the global frame; at the
\* end of the input read_line returns what is left, at last the empty string
repl_read ==
    /\ mode = "idle"
    /\ \E line \in IF eof THEN {<< >>} ELSE Lines \cup LastLines :
        /\ input' = line
        /\ eof' = (line = << >> \/ line[Len(line)] # "\n")
        /\ IF line = ExitText
           THEN /\ mode' = "exit"
                /\ UNCHANGED <<frames, stack, tree, env, val, panicMsg, tokenized>>
           ELSE LET parsed == parse(tokenize(line))
                IN  /\ tokenized' = tokenize(line)
                    /\ IF IsPanic(parsed)
                       THEN /\ mode' = "panic"
                            /\ panicMsg' = parsed.msg
                            /\ UNCHANGED <<frames, stack, tree, env, val>>
                       ELSE /\ mode' = "eval"
                            /\ tree' = parsed.expression
                            /\ env' = GlobalEnv
                            /\ UNCHANGED <<frames, stack, val, panicMsg>>

\* tokenize(source), called on its own
tokenize_input ==
    /\ mode = "tokenize"
    /\ tokenized' = tokenize(input)
    /\ mode' = "parse"
    /\ UNCHANGED <<frames, stack, tree, env, val, panicMsg, input, eof>>

\* parse(tokens), called on its own: the expression, or the panic
parse_tokens ==
    /\ mode = "parse"
    /\ LET parsed == parse(tokenized)
       IN  IF IsPanic(parsed)
           THEN /\ mode' = "panic"
                /\ panicMsg' = parsed.msg
                /\ UNCHANGED <<frames, stack, tree, env, val, input, eof, tokenized>>
           ELSE /\ mode' = "eval"
                /\ tree' = parsed.expression
                /\ env' = GlobalEnv
                /\ UNCHANGED <<frames, stack, val, panicMsg, input, eof, tokenized>>

\* the output is printed and the loop goes back to the prompt
repl_print ==
    /\ mode = "ret"
    /\ stack = << >>
    /\ mode' = "idle"
    /\ tree' = Integer(0)
    /\ val' = Void
    /\ input' = << >>
    /\ tokenized' = << >>
    /\ UNCHANGED <<frames, stack, env, panicMsg, eof>>

\* ------------------------------------------------------------- evaluate
evaluate_integer ==
    /\ mode = "eval"
    /\ tree.t = "Integer"
    /\ Return(IntegerV(tree.n))
    /\ UNCHANGED frames

evaluate_symbol ==
    /\ mode = "eval"
    /\ tree.t = "Symbol"
    /\ LET r == get(frames, env, tree.s)
       IN  IF IsPanic(r) THEN Die(r.msg)
           ELSE Return(r) /\ UNCHANGED frames

evaluate_empty_list ==
    /\ mode = "eval"
    /\ tree.t = "List"
    /\ Len(tree.xs) = 0
    /\ Die("list of expression cannot be empty!")

\* define: evaluate expressions[2] ...
evaluate_define ==
    /\ mode = "eval"
    /\ IsForm(tree, "define")
    /\ IF ~check_arguments(tree.xs, REQUIRED_DEFINE_ARGUMENTS)
       THEN Die(BadArguments)
       ELSE IF tree.xs[2].t # "Symbol"
       THEN Die("var must be LispExpression Symbol")
       ELSE /\ Descend(Activation("define", tree, env), tree.xs[3], env)
            /\ UNCHANGED frames

\* ... then env.set(var, val) and return val
define_set ==
    /\ mode = "ret"
    /\ stack # << >>
    /\ Top.k = "define"
    /\ frames' = set(frames, Top.env, Top.tree.xs[2].s, val)
    /\ Finish(val)

\* Function::build that captures the global frame, whatever the frame in
\* effect
Function_build_global(parameters, body, enclosing_frame) ==
    IF parameters.t # "List"
    THEN Panic("parameters should be a list")
    ELSE IF \E j \in DOMAIN parameters.xs : parameters.xs[j].t # "Symbol"
    THEN Panic("one or more parameters is not a LispExpression symbol")
    ELSE LambdaV([j \in DOMAIN parameters.xs |-> parameters.xs[j].s],
                 body, GlobalEnv)

\* Function::build
Function_build(parameters, body, enclosing_frame) ==
    IF parameters.t # "List"
    THEN Panic("parameters should be a list")
    ELSE IF \E j \in DOMAIN parameters.xs : parameters.xs[j].t # "Symbol"
    THEN Panic("one or more parameters is not a LispExpression symbol")
    ELSE LambdaV([j \in DOMAIN parameters.xs |-> parameters.xs[j].s],
                 body, enclosing_frame)

evaluate_lambda ==
    /\ mode = "eval"
    /\ IsForm(tree, "lambda")
    /\ IF ~check_arguments(tree.xs, REQUIRED_LAMBDA_ARGUMENTS)
       THEN Die(BadArguments)
       ELSE LET f == Function_build(tree.xs[2], tree.xs[3], env)
            IN  IF IsPanic(f) THEN Die(f.msg)
                ELSE Return(f) /\ UNCHANGED frames

\* if: the condition ...
evaluate_if ==
    /\ mode = "eval"
    /\ IsForm(tree, "if")
    /\ IF ~check_arguments(tree.xs, REQUIRED_IF_ARGUMENTS)
       THEN Die(BadArguments)
       ELSE /\ Descend([Activation("if", tree, env) EXCEPT !.i = 2], tree.xs[2], env)
            /\ UNCHANGED frames

\* an `if` that takes every value but Bool(false) for true
if_branch_truthy(condition) == IF condition = BoolV(FALSE) THEN 4 ELSE 3

\* the index in expressions (from 1) of the branch the condition selects
if_branch(condition) == IF condition = BoolV(TRUE) THEN 3 ELSE 4

\* ... then the branch it selects
if_condition ==
    /\ mode = "ret"
    /\ stack # << >>
    /\ Top.k = "if"
    /\ Top.i = 2
    /\ LET branch == if_branch(val)
       IN  Continue([Top EXCEPT !.i = branch], Top.tree.xs[branch], Top.env)
    /\ UNCHANGED frames

if_return ==
    /\ mode = "ret"
    /\ stack # << >>
    /\ Top.k = "if"
    /\ Top.i > 2
    /\ Finish(val)
    /\ UNCHANGED frames

\* an `and` that evaluates every clause
and_never_stops(clause_bool) == FALSE

\* and / or: the value that ends the loop over the clauses
and_stops(clause_bool) == clause_bool = BoolV(FALSE)
or_stops(clause_bool) == clause_bool = BoolV(TRUE)

evaluate_and ==
    /\ mode = "eval"
    /\ IsForm(tree, "and")
    /\ IF Len(tree.xs) = 1
       THEN Return(BoolV(TRUE))
       ELSE Descend([Activation("and", tree, env) EXCEPT !.i = 2], tree.xs[2], env)
    /\ UNCHANGED frames

and_clause ==
    /\ mode = "ret"
    /\ stack # << >>
    /\ Top.k = "and"
    /\ IF and_stops(val) THEN Finish(val)
       ELSE IF Top.i = Len(Top.tree.xs) THEN Finish(BoolV(TRUE))
       ELSE Continue([Top EXCEPT !.i = Top.i + 1], Top.tree.xs[Top.i + 1], Top.env)
    /\ UNCHANGED frames

evaluate_or ==
    /\ mode = "eval"
    /\ IsForm(tree, "or")
    /\ IF Len(tree.xs) = 1
       THEN Return(BoolV(FALSE))
       ELSE Descend([Activation("or", tree, env) EXCEPT !.i = 2], tree.xs[2], env)
    /\ UNCHANGED frames

or_clause ==
    /\ mode = "ret"
    /\ stack # << >>
    /\ Top.k = "or"
    /\ IF or_stops(val) THEN Finish(val)
       ELSE IF Top.i = Len(Top.tree.xs) THEN Finish(BoolV(FALSE))
       ELSE Continue([Top EXCEPT !.i = Top.i + 1], Top.tree.xs[Top.i + 1], Top.env)
    /\ UNCHANGED frames

evaluate_del ==
    /\ mode = "eval"
    /\ IsForm(tree, "del")
    /\ IF ~check_arguments(tree.xs, REQUIRED_DEL_ARGUMENTS)
       THEN Die(BadArguments)
       ELSE IF tree.xs[2].t # "Symbol"
       THEN Die("expecting a symbol when removing a binding!")
       ELSE LET r == del(frames, env, tree.xs[2].s)
            IN  IF IsPanic(r.out) THEN DieIn(r.out.msg, r.fs)
                ELSE Return(r.out) /\ frames' = r.fs

\* a `let` that inserts each binding into the frame of the `let` as soon as
\* it is evaluated, so that later bindings see it
LetStep_leaking(k, rest) ==
    LET definitions == k.tree.xs[2].xs
        seen == [s \in Names |-> IF k.bindings[s] # NoBinding THEN k.bindings[s]
                                 ELSE frames[k.env].bindings[s]]
    IN  IF k.i > Len(definitions)
        THEN LET new_env == Len(frames) + 1
             IN  /\ Len(frames) < MaxFrames
                 /\ frames' = Append(frames, Environment(k.bindings, k.env))
                 /\ mode' = "eval"
                 /\ stack' = Append(rest, [k EXCEPT !.k = "let_body", !.new_env = new_env])
                 /\ tree' = k.tree.xs[3]
                 /\ env' = new_env
                 /\ UNCHANGED <<val, panicMsg, input, eof, tokenized>>
        ELSE LET def == definitions[k.i]
             IN  IF def.t # "List"
                 THEN Die("each binding should be a LispExpression List!")
                 ELSE IF Len(def.xs) = 0
                 THEN Die("index out of bounds: the len is 0 but the index is 0")
                 ELSE IF def.xs[1].t # "Symbol"
                 THEN Die("expecting first element of binding to be symbol!")
                 ELSE IF Len(def.xs) = 1
                 THEN Die("index out of bounds: the len is 1 but the index is 1")
                 ELSE /\ mode' = "eval"
                      /\ stack' = Append(rest, k)
                      /\ tree' = def.xs[2]
                      /\ env' = k.env
                      /\ frames' = [frames EXCEPT ![k.env].bindings = seen]
                      /\ UNCHANGED <<val, panicMsg, input, eof, tokenized>>

\* let: the binding at index k.i of the definitions, or the body in the
\* new frame when the definitions are exhausted
LetStep(k, rest) ==
    LET definitions == k.tree.xs[2].xs
    IN  IF k.i > Len(definitions)
        THEN LET new_env == Len(frames) + 1
             IN  /\ Len(frames) < MaxFrames
                 /\ frames' = Append(frames, Environment(k.bindings, k.env))
                 /\ mode' = "eval"
                 /\ stack' = Append(rest, [k EXCEPT !.k = "let_body", !.new_env = new_env])
                 /\ tree' = k.tree.xs[3]
                 /\ env' = new_env
                 /\ UNCHANGED <<val, panicMsg, input, eof, tokenized>>
        ELSE LET def == definitions[k.i]
             IN  IF def.t # "List"
                 THEN Die("each binding should be a LispExpression List!")
                 ELSE IF Len(def.xs) = 0
                 THEN Die("index out of bounds: the len is 0 but the index is 0")
                 ELSE IF def.xs[1].t # "Symbol"
                 THEN Die("expecting first element of binding to be symbol!")
                 ELSE IF Len(def.xs) = 1
                 THEN Die("index out of bounds: the len is 1 but the index is 1")
                 ELSE /\ mode' = "eval"
                      /\ stack' = Append(rest, k)
                      /\ tree' = def.xs[2]
                      /\ env' = k.env
                      /\ UNCHANGED <<frames, val, panicMsg, input, eof, tokenized>>

evaluate_let ==
    /\ mode = "eval"
    /\ IsForm(tree, "let")
    /\ IF ~check_arguments(tree.xs, REQUIRED_LET_ARGUMENTS)
       THEN Die(BadArguments)
       ELSE IF tree.xs[2].t # "List"
       THEN Die("expecting list of bindings")
       ELSE LetStep([Activation("let", tree, env) EXCEPT !.i = 1], stack)

\* bindings.insert(var, evaluate(expr, env))
let_binding ==
    /\ mode = "ret"
    /\ stack # << >>
    /\ Top.k = "let"
    /\ LET var == Top.tree.xs[2].xs[Top.i].xs[1].s
       IN  LetStep([Top EXCEPT !.bindings[var] = val, !.i = Top.i + 1], Pop)

\* the body returned: new_env goes out of scope
let_return ==
    /\ mode = "ret"
    /\ stack # << >>
    /\ Top.k = "let_body"
    /\ frames' = drop(frames, Top.new_env)
    /\ Finish(val)

\* set!: evaluate expressions[2] ...
evaluate_set_bang ==
    /\ mode = "eval"
    /\ IsForm(tree, "set!")
    /\ IF ~check_arguments(tree.xs, REQUIRED_SET_BANG_ARGUMENTS)
       THEN Die(BadArguments)
       ELSE IF tree.xs[2].t # "Symbol"
       THEN Die("expecting variable to be String type!")
       ELSE /\ Descend(Activation("set!", tree, env), tree.xs[3], env)
            /\ UNCHANGED frames

\* a set! that binds the variable in its own frame before it fails
set_bang_assign_binding ==
    /\ mode = "ret"
    /\ stack # << >>
    /\ Top.k = "set!"
    /\ LET r == set_bang(frames, Top.env, Top.tree.xs[2].s, val)
       IN  IF IsPanic(r.out)
           THEN DieIn(r.out.msg, set(frames, Top.env, Top.tree.xs[2].s, val))
           ELSE Finish(r.out) /\ frames' = r.fs

\* env.borrow_mut().set_bang(var, evaluate(expr, env))
set_bang_assign ==
    /\ mode = "ret"
    /\ stack # << >>
    /\ Top.k = "set!"
    /\ LET r == set_bang(frames, Top.env, Top.tree.xs[2].s, val)
       IN  IF IsPanic(r.out) THEN DieIn(r.out.msg, r.fs)
           ELSE Finish(r.out) /\ frames' = r.fs

\* application: the head, then the operands, then the call
IsApplication(t) ==
    /\ t.t = "List"
    /\ Len(t.xs) > 0
    /\ ~(HeadOf(t).t = "Symbol" /\ HeadOf(t).s \in SpecialForms)

evaluate_application ==
    /\ mode = "eval"
    /\ IsApplication(tree)
    /\ Descend([Activation("app", tree, env) EXCEPT !.i = 1], tree.xs[1], env)
    /\ UNCHANGED frames

\* the call starts as soon as one operand is evaluated
NextOperand_eager(k) ==
    IF k.i = Len(k.tree.xs) \/ k.i = 2
    THEN /\ mode' = "apply"
         /\ stack' = Append(Pop, k)
         /\ tree' = k.tree
         /\ env' = k.env
         /\ UNCHANGED <<val, panicMsg, input, eof, tokenized>>
    ELSE Continue([k EXCEPT !.i = k.i + 1], k.tree.xs[k.i + 1], k.env)

\* the operand after operand i, or the call when there is none
NextOperand(k) ==
    IF k.i = Len(k.tree.xs)
    THEN /\ mode' = "apply"
         /\ stack' = Append(Pop, k)
         /\ tree' = k.tree
         /\ env' = k.env
         /\ UNCHANGED <<val, panicMsg, input, eof, tokenized>>
    ELSE Continue([k EXCEPT !.i = k.i + 1], k.tree.xs[k.i + 1], k.env)

application_head ==
    /\ mode = "ret"
    /\ stack # << >>
    /\ Top.k = "app"
    /\ Top.i = 1
    /\ IF ~IsFunction(val)
       THEN Die("expected function for first expression of list")
       ELSE /\ NextOperand([Top EXCEPT !.fn = val])
            /\ UNCHANGED frames

application_argument ==
    /\ mode = "ret"
    /\ stack # << >>
    /\ Top.k = "app"
    /\ Top.i > 1
    /\ NextOperand([Top EXCEPT !.args = Append(Top.args, val)])
    /\ UNCHANGED frames

\* Function::call: zip(parameters, args) into a HashMap, later pairs win
zip_bindings(parameters, args) ==
    LET n == IF Len(parameters) < Len(args) THEN Len(parameters) ELSE Len(args)
    IN  [name \in Names |->
            IF \E j \in 1..n : parameters[j] = name
            THEN args[CHOOSE j \in 1..n :
                        /\ parameters[j] = name
                        /\ \A h \in 1..n : parameters[h] = name => h <= j]
            ELSE NoBinding]

\* Weak::upgrade of the enclosing frame
upgrade(fs, e) == IF fs[e].alive THEN e ELSE None

\* a frame for the call that starts with a copy of the bindings of the
\* captured frame
Function_call_new_env_copy(fs, f, args) ==
    LET bindings == zip_bindings(f.parameters, args)
    IN  Environment([n \in Names |->
                        IF bindings[n] # NoBinding THEN bindings[n]
                        ELSE fs[f.enclosing_frame].bindings[n]],
                    upgrade(fs, f.enclosing_frame))

\* Function::call: the frame of the call binds the parameters and has the
\* captured frame for its parent
Function_call_new_env(fs, f, args) ==
    Environment(zip_bindings(f.parameters, args), upgrade(fs, f.enclosing_frame))

\* a cell for the call that starts with the bindings the cell of the
\* invocation before it ended with
Rc_new_env_reused(fs, f, args) ==
    LET new_env == Function_call_new_env(fs, f, args)
        last == fs[Len(fs)]
    IN  Append(fs, [new_env EXCEPT !.bindings =
                        [n \in Names |-> IF new_env.bindings[n] # NoBinding
                                         THEN new_env.bindings[n]
                                         ELSE IF Len(fs) > GlobalEnv
                                         THEN last.bindings[n] ELSE NoBinding]])

\* Function::call: Rc::new(RefCell::new(..)) allocates a cell for new_env
Rc_new_env(fs, f, args) == Append(fs, Function_call_new_env(fs, f, args))

call_function ==
    /\ mode = "apply"
    /\ Top.fn.o = "Lambda"
    /\ LET f == Top.fn
           parent == upgrade(frames, f.enclosing_frame)
           new_env == Len(frames) + 1
       IN  IF parent = None
           THEN Die("called Option::unwrap() on a None value")
           ELSE /\ Len(frames) < MaxFrames
                /\ frames' = Rc_new_env(frames, f, Top.args)
                /\ Continue([Top EXCEPT !.k = "call", !.new_env = new_env],
                            f.body, new_env)

\* the body returned: new_env goes out of scope
call_return ==
    /\ mode = "ret"
    /\ stack # << >>
    /\ Top.k = "call"
    /\ frames' = drop(frames, Top.new_env)
    /\ Finish(val)

\* BuiltInFunction::call
call_built_in ==
    /\ mode = "apply"
    /\ Top.fn.o = "BuiltIn"
    /\ Top.fn.name \notin HigherOrder
    /\ LET r == BuiltIn(Top.fn.name, Top.args)
       IN  IF IsPanic(r) THEN Die(r.msg)
           ELSE Finish(r) /\ UNCHANGED frames

\* func.call(vec![car]) inside apply_map / apply_filter
Invoke(k, func, element) ==
    [Activation("invoke", k.tree, k.env) EXCEPT !.fn = func, !.args = <<element>>]

\* map_func / filter_func: the checks, then the first element
call_higher_order ==
    /\ mode = "apply"
    /\ Top.fn.o = "BuiltIn"
    /\ Top.fn.name \in HigherOrder
    /\ LET args == Top.args
           required == IF Top.fn.name = "map" THEN REQUIRED_MAP_ARGUMENTS
                       ELSE REQUIRED_FILTER_ARGUMENTS
       IN  IF ~check_output_arguments(args, required) THEN Die(WrongCount)
           ELSE IF ~IsFunction(args[2])
           THEN Die("expecting second argument to be lisp function!")
           ELSE IF args[1].o # "List"
           THEN Die("expecting first argument to be lisp list!")
           ELSE IF args[1].xs = << >>
           THEN Finish(ListV(<< >>)) /\ UNCHANGED frames
           ELSE LET k == [Top EXCEPT !.k = Top.fn.name, !.i = 1]
                IN  /\ stack' = Append(Append(Pop, k), Invoke(k, args[2], args[1].xs[1]))
                    /\ UNCHANGED <<frames, mode, tree, env, val, panicMsg, input, eof, tokenized>>

\* an apply_map / apply_filter that stops after the first element
NextElement_first(k) ==
    /\ mode' = "ret"
    /\ val' = ListV(k.out)
    /\ stack' = Pop
    /\ tree' = k.tree
    /\ env' = k.env
    /\ UNCHANGED <<frames, panicMsg, input, eof, tokenized>>

\* the next element of apply_map / apply_filter, or the finished list
NextElement(k) ==
    IF k.i = Len(k.args[1].xs)
    THEN /\ mode' = "ret"
         /\ val' = ListV(k.out)
         /\ stack' = Pop
         /\ tree' = k.tree
         /\ env' = k.env
         /\ UNCHANGED <<frames, panicMsg, input, eof, tokenized>>
    ELSE LET k1 == [k EXCEPT !.i = k.i + 1]
         IN  /\ mode' = "apply"
             /\ stack' = Append(Append(Pop, k1), Invoke(k1, k.args[2], k.args[1].xs[k.i + 1]))
             /\ tree' = k.tree
             /\ env' = k.env
             /\ UNCHANGED <<frames, val, panicMsg, input, eof, tokenized>>

map_element ==
    /\ mode = "ret"
    /\ stack # << >>
    /\ Top.k = "map"
    /\ NextElement([Top EXCEPT !.out = Append(Top.out, val)])

filter_element ==
    /\ mode = "ret"
    /\ stack # << >>
    /\ Top.k = "filter"
    /\ IF val.o # "Bool"
       THEN Die("expecting element to evaluate to boolean!")
       ELSE IF val.b
       THEN NextElement([Top EXCEPT !.out = Append(Top.out, Top.args[1].xs[Top.i])])
       ELSE NextElement(Top)

Next ==
    \/ repl_read
    \/ repl_print
    \/ evaluate_integer
    \/ evaluate_symbol
    \/ evaluate_empty_list
    \/ evaluate_define
    \/ define_set
    \/ evaluate_lambda
    \/ evaluate_if
    \/ if_condition
    \/ if_return
    \/ evaluate_and
    \/ and_clause
    \/ evaluate_or
    \/ or_clause
    \/ evaluate_del
    \/ evaluate_let
    \/ let_binding
    \/ let_return
    \/ evaluate_set_bang
    \/ set_bang_assign
    \/ evaluate_application
    \/ application_head
    \/ application_argument
    \/ call_function
    \/ call_return
    \/ call_built_in
    \/ call_higher_order
    \/ map_element
    \/ filter_element

Spec == Init /\ [][Next]_vars

\* ------------------------------------------------- calls of the built-ins
\* the values handed to a built-in: lists of integers, integers, a function
Elements == {IntegerV(1), IntegerV(2)}
Lists == {ListV(xs) : xs \in UNION {[1..n -> Elements] : n \in 0..MaxLen}}
Arguments == Lists \cup {IntegerV(n) : n \in (0 - 1)..MaxLen} \cup {BuiltInV("car")}
ArgumentVectors == UNION {[1..n -> Arguments] : n \in 0..MaxArgs}

\* an expression that evaluates to v
RECURSIVE Literal(_)
Literal(v) ==
    CASE v.o = "Integer" -> Integer(v.n)
      [] v.o = "BuiltIn" -> Symbol(v.name)
      [] v.o = "List" ->
            App(<<Symbol("list")>> \o [j \in DOMAIN v.xs |-> Literal(v.xs[j])])

\* (name a1 ... an) for the values args
Call(name, args) == App(<<Symbol(name)>> \o [j \in DOMAIN args |-> Literal(args[j])])

\* the evaluation of (name a1 ... an) at the prompt of a fresh session, at
\* the point where the head and the operands are evaluated and
\* function.call(args) starts
InitLibrary ==
    \E name \in BuiltInFunctionNames, args \in ArgumentVectors :
        /\ frames = << Environment(built_in_function_bindings, None),
                       Environment(EmptyBindings, BuiltInsEnv) >>
        /\ stack = << [Activation("app", Call(name, args), GlobalEnv)
                          EXCEPT !.i = Len(args) + 1, !.fn = BuiltInV(name),
                                 !.args = args] >>
        /\ mode = "apply"
        /\ tree = Call(name, args)
        /\ env = GlobalEnv
        /\ val = IF args = << >> THEN BuiltInV(name) ELSE args[Len(args)]
        /\ panicMsg = ""
        /\ input = Line(Source(Call(name, args)))
        /\ eof = FALSE
        /\ tokenized = tokenize(input)

SpecLibrary == InitLibrary /\ [][Next]_vars

\* the process keeps running while it can take a step
FairSpec == Spec /\ WF_vars(Next)

\* ------------------------------------------------------- the front end
\* tokenize and parse are public functions: their unit tests call them on
\* any source text and on any token vector
MaxChars == 4
MaxTokens == 4

SourceAlphabet == {"a", "1", "(", ";", " ", "\n"}
Sources == UNION {[1..n -> SourceAlphabet] : n \in 0..MaxChars}

TokenAlphabet == {LeftParen, RightParen, IntegerT(1), SymbolT("x")}
TokenVectors == UNION {[1..n -> TokenAlphabet] : n \in 0..MaxTokens}

InitFrontEnd ==
    /\ frames = << Environment(built_in_function_bindings, None),
                   Environment(EmptyBindings, BuiltInsEnv) >>
    /\ stack = << >>
    /\ tree = Integer(0)
    /\ env = GlobalEnv
    /\ val = Void
    /\ panicMsg = ""
    /\ eof = FALSE
    /\ \/ /\ mode = "tokenize"
          /\ input \in Sources
          /\ tokenized = << >>
       \/ /\ mode = "parse"
          /\ input = << >>
          /\ tokenized \in TokenVectors

NextFrontEnd ==
    \/ tokenize_input
    \/ parse_tokens

SpecFrontEnd == InitFrontEnd /\ [][NextFrontEnd]_vars

\* ================================================================ claims

\* the frames from e up to the root of its parent chain, e first
RECURSIVE Chain(_, _)
Chain(fs, e) ==
    IF fs[e].parent_env = None THEN <<e>> ELSE <<e>> \o Chain(fs, fs[e].parent_env)

\* the nearest frame of the chain of e that binds name s, or None
Binder(fs, e, s) ==
    LET c == Chain(fs, e)
        B == {j \in DOMAIN c : fs[c[j]].bindings[s] # NoBinding}
    IN  IF B = {} THEN None ELSE c[CHOOSE j \in B : \A h \in B : j <= h]

\* C1: whenever a user closure is invoked, its captured frame is still
\* alive: no call fails because the captured frame has been released.
C1_CapturedFrameAlive ==
    (mode \in {"apply", "panic"} /\ stack # << >> /\ Top.k \in {"app", "invoke"}
        /\ Top.fn.o = "Lambda")
    => frames[Top.fn.enclosing_frame].alive

\* C2: the body of a user closure is evaluated only for a call whose
\* argument count equals the parameter count.
C2_ArityChecked ==
    \A d \in DOMAIN stack :
        stack[d].k = "call" => Len(stack[d].args) = Len(stack[d].fn.parameters)

\* C3: the bindings of the built-ins frame are those installed at startup.
C3_BuiltInsUnchanged ==
    frames[BuiltInsEnv].bindings = built_in_function_bindings

\* the bindings of every frame other than e, and of e other than s, are
\* the same in fs1 as in fs
OnlyChanged(fs, fs1, e, s) ==
    /\ DOMAIN fs1 = DOMAIN fs
    /\ \A g \in DOMAIN fs :
        /\ fs1[g].alive = fs[g].alive
        /\ fs1[g].parent_env = fs[g].parent_env
        /\ \A n \in Names : (g # e \/ n # s) => fs1[g].bindings[n] = fs[g].bindings[n]

\* C4: evaluating a symbol returns the value bound in the nearest frame of
\* the parent chain that binds it, and fails when no frame of the chain
\* binds it; it never returns Void for an unbound name.
C4_Lookup ==
    [][(mode = "eval" /\ tree.t = "Symbol") =>
        LET owner == Binder(frames, env, tree.s)
        IN  IF owner = None
            THEN mode' = "panic"
            ELSE /\ mode' = "ret"
                 /\ val' = frames[owner].bindings[tree.s]
                 /\ val' # Void]_vars

\* a symbol looked up in a child frame was resolved in an ancestor
C4_Witness ==
    /\ mode = "ret"
    /\ tree.t = "Symbol"
    /\ env # GlobalEnv
    /\ frames[env].bindings[tree.s] = NoBinding
    /\ val = frames[GlobalEnv].bindings[tree.s]

\* C5: (define s e) evaluates e in the current frame, then inserts or
\* overwrites the binding of s in the current frame only, leaves every
\* other frame unchanged, and returns the value; a following lookup of s in
\* that frame yields the value.
C5_Define ==
    [][/\ (mode = "eval" /\ IsForm(tree, "define") /\ mode' = "eval")
            => (tree' = tree.xs[3] /\ env' = env /\ frames' = frames)
       /\ (mode = "ret" /\ stack # << >> /\ Top.k = "define")
            => LET s == Top.tree.xs[2].s
               IN  /\ frames'[Top.env].bindings[s] = val
                   /\ OnlyChanged(frames, frames', Top.env, s)
                   /\ mode' = "ret"
                   /\ val' = val
                   /\ Binder(frames', Top.env, s) = Top.env]_vars

\* a define in a child frame returned while the global frame binds the same
\* name to another value
C5_Witness ==
    /\ mode = "ret"
    /\ IsForm(tree, "define")
    /\ env # GlobalEnv
    /\ frames[env].bindings[tree.xs[2].s] = val
    /\ frames[GlobalEnv].bindings[tree.xs[2].s] \notin {NoBinding, val}

\* C6: (set! s e) overwrites the binding of s in the first frame of the
\* chain that binds s, leaves every other frame and binding unchanged,
\* creates no binding, and returns the new value; it fails when no frame of
\* the chain binds s.
C6_SetBang ==
    [][(mode = "ret" /\ stack # << >> /\ Top.k = "set!") =>
        LET s == Top.tree.xs[2].s
            owner == Binder(frames, Top.env, s)
        IN  IF owner = None
            THEN mode' = "panic" /\ frames' = frames
            ELSE /\ frames'[owner].bindings[s] = val
                 /\ OnlyChanged(frames, frames', owner, s)
                 /\ mode' = "ret"
                 /\ val' = val]_vars

\* a set! in a child frame that does not bind the name returned, and the
\* global frame holds the new value
C6_Witness ==
    /\ mode = "ret"
    /\ IsForm(tree, "set!")
    /\ env # GlobalEnv
    /\ frames[env].bindings[tree.xs[2].s] = NoBinding
    /\ frames[GlobalEnv].bindings[tree.xs[2].s] = val

\* C7: (del s) removes the binding of s from the current frame only and
\* returns the removed value; it fails when the current frame does not bind
\* s, also when an ancestor binds it, so a second del of s fails.
C7_Del ==
    [][(mode = "eval" /\ IsForm(tree, "del") /\ Len(tree.xs) = 2
            /\ tree.xs[2].t = "Symbol") =>
        LET s == tree.xs[2].s
        IN  IF frames[env].bindings[s] = NoBinding
            THEN mode' = "panic" /\ frames' = frames
            ELSE /\ mode' = "ret"
                 /\ val' = frames[env].bindings[s]
                 /\ frames'[env].bindings[s] = NoBinding
                 /\ OnlyChanged(frames, frames', env, s)]_vars

\* a del in a child frame failed although the global frame binds the name
C7_Witness ==
    /\ mode = "panic"
    /\ IsForm(tree, "del")
    /\ env # GlobalEnv
    /\ frames[env].bindings[tree.xs[2].s] = NoBinding
    /\ frames[GlobalEnv].bindings[tree.xs[2].s] # NoBinding

\* C8: a closure captures the frame in effect at its lambda, and its body
\* is evaluated in a fresh frame whose parent is that captured frame, not
\* the caller's frame: a free variable of the body sees a rebinding made in
\* the captured frame after the closure was created, and never a binding of
\* the caller's frame.
C8_LexicalScope ==
    /\ (mode = "ret" /\ IsForm(tree, "lambda"))
        => (val.o = "Lambda" /\ val.enclosing_frame = env)
    /\ \A d \in DOMAIN stack :
        stack[d].k = "call" =>
            /\ frames[stack[d].new_env].alive
            /\ frames[stack[d].new_env].parent_env = stack[d].fn.enclosing_frame
            /\ stack[d].new_env # stack[d].env
            /\ \A c \in DOMAIN stack :
                (c # d /\ stack[c].k \in {"call", "let_body"})
                    => stack[c].new_env # stack[d].new_env
    /\ (mode = "ret" /\ tree = Rebinding) => val.xs[4] = IntegerV(2)
    /\ (mode = "ret" /\ tree = App(<<Symbol("f")>>))
        => val = frames[GlobalEnv].bindings["x"]

\* (f) was called in a `let` frame that binds x to 3 and returned the value
\* of x in the global frame, which f captured
C8_Witness ==
    /\ mode = "ret"
    /\ tree = App(<<Symbol("f")>>)
    /\ env # GlobalEnv
    /\ frames[env].bindings["x"] = IntegerV(3)
    /\ val = frames[GlobalEnv].bindings["x"]
    /\ val # IntegerV(3)

\* C9: in an application the head is evaluated first, then the operands
\* left to right, all in the caller's frame, and the function is invoked
\* only when every operand has its value; the side effect of an operand is
\* visible to the later ones.
C9_ApplicationOrder ==
    mode # "panic" =>
    /\ \A d \in DOMAIN stack :
        stack[d].k = "app" =>
            LET k == stack[d]
                n == Len(k.tree.xs)
                invoking == d = Len(stack) /\ mode = "apply"
            IN  /\ k.i \in 1..n
                /\ (k.i = 1 /\ ~invoking) => (k.fn = Void /\ k.args = << >>)
                /\ (k.i > 1 \/ invoking) => IsFunction(k.fn)
                /\ invoking => (k.i = n /\ Len(k.args) = n - 1)
                /\ (~invoking /\ k.i > 1) => Len(k.args) = k.i - 2
                /\ (d < Len(stack))
                    => (stack[d + 1].tree = k.tree.xs[k.i] /\ stack[d + 1].env = k.env)
                /\ (d = Len(stack) /\ ~invoking)
                    => (tree = k.tree.xs[k.i] /\ env = k.env)
    /\ \A d \in DOMAIN stack :
        (stack[d].k = "call" /\ stack[d].i > 0) =>
            /\ stack[d].i = Len(stack[d].tree.xs)
            /\ Len(stack[d].args) = Len(stack[d].tree.xs) - 1
    /\ (mode = "ret" /\ tree = OperandOrder)
        => val = ListV(<<IntegerV(2), IntegerV(2)>>)

\* ((define z list) (define y 2) y) returned the list (2 2): the head bound
\* z before it was called, and the last operand saw the define before it
C9_Witness ==
    /\ mode = "ret"
    /\ tree = OperandOrder
    /\ val = ListV(<<IntegerV(2), IntegerV(2)>>)
    /\ frames[env].bindings["z"] = BuiltInV("list")

\* what one step of `and` / `or` does with the value of clause i: stop is
\* the value that ends the form, otherwise is the result without one
ClauseStep(form, stop, otherwise) ==
    (mode = "ret" /\ stack # << >> /\ Top.k = form) =>
        IF val = stop
        THEN mode' = "ret" /\ val' = stop /\ stack' = Pop /\ frames' = frames
        ELSE IF Top.i = Len(Top.tree.xs)
        THEN mode' = "ret" /\ val' = otherwise /\ stack' = Pop /\ frames' = frames
        ELSE /\ mode' = "eval"
             /\ tree' = Top.tree.xs[Top.i + 1]
             /\ env' = Top.env
             /\ frames' = frames

\* the first step of `and` / `or`
FirstClause(form, otherwise) ==
    (mode = "eval" /\ IsForm(tree, form)) =>
        IF Len(tree.xs) = 1
        THEN mode' = "ret" /\ val' = otherwise /\ stack' = stack /\ frames' = frames
        ELSE mode' = "eval" /\ tree' = tree.xs[2] /\ env' = env /\ frames' = frames

C11_If ==
    [][ /\ (mode = "eval" /\ IsForm(tree, "if") /\ Len(tree.xs) = 4)
            => /\ mode' = "eval" /\ tree' = tree.xs[2] /\ env' = env
               /\ frames' = frames
               /\ stack' = Append(stack, stack'[Len(stack')])
               /\ stack'[Len(stack')].tree = tree
        /\ (mode = "ret" /\ stack # << >> /\ Top.k = "if")
            => LET expressions == Top.tree.xs
               IN  IF Top.i = 2
                   THEN /\ mode' = "eval" /\ env' = Top.env /\ frames' = frames
                        /\ tree' = IF val = BoolV(TRUE) THEN expressions[3]
                                   ELSE expressions[4]
                        /\ Len(stack') = Len(stack)
                        /\ stack'[Len(stack')].i = IF val = BoolV(TRUE) THEN 3 ELSE 4
                   ELSE /\ mode' = "ret" /\ val' = val /\ frames' = frames
                        /\ stack' = Pop
        /\ \A e \in 1..Len(frames') : frames'[e].bindings["b"] = NoBinding
      ]_vars

C11_Witness ==
    /\ mode = "ret" /\ stack = << >>
    /\ tree = IfInteger
    /\ val = IntegerV(2)

\* after j bindings of the `let` t in frame e are evaluated: the next binding
\* expression in e with no frame changed, or the body in a fresh child of e
LetNext(t, e, j) ==
    LET definitions == t.xs[2].xs
        names == {definitions[d].xs[1].s : d \in 1..Len(definitions)}
    IN  IF j < Len(definitions)
        THEN /\ tree' = definitions[j + 1].xs[2]
             /\ env' = e
             /\ frames' = frames
        ELSE /\ tree' = t.xs[3]
             /\ env' = Len(frames) + 1
             /\ Len(frames') = Len(frames) + 1
             /\ \A c \in 1..Len(frames) : frames'[c] = frames[c]
             /\ frames'[env'].alive
             /\ frames'[env'].parent_env = e
             /\ \A s \in Names : (frames'[env'].bindings[s] # NoBinding) <=> s \in names
             /\ \A d \in 1..Len(definitions) :
                    (/\ definitions[d].xs[2].t = "Integer"
                     /\ \A c \in (d + 1)..Len(definitions) :
                            definitions[c].xs[1].s # definitions[d].xs[1].s)
                    => frames'[env'].bindings[definitions[d].xs[1].s]
                            = IntegerV(definitions[d].xs[2].n)

\* C12: the bindings of a `let` are parallel: every binding expression is
\* evaluated in the frame where the `let` appears, no frame changing in
\* between, so a sibling name resolves in the enclosing chain or not at all;
\* the body is evaluated in a fresh child of that frame which holds exactly
\* the bindings, and its value is the value of the `let`.
C12_ParallelLet ==
    [][ /\ (/\ mode = "eval" /\ IsForm(tree, "let") /\ Len(tree.xs) = 3
             /\ tree.xs[2].t = "List" /\ mode' = "eval")
            => LetNext(tree, env, 0)
        /\ (mode = "ret" /\ stack # << >> /\ Top.k = "let" /\ mode' = "eval")
            => LetNext(Top.tree, Top.env, Top.i)
        /\ (mode = "ret" /\ stack # << >> /\ Top.k = "let_body")
            => /\ mode' = "ret" /\ val' = val /\ stack' = Pop
               /\ tree' = Top.tree
        /\ (mode' = "ret" /\ tree' = ParallelLet /\ stack' = << >>)
            => /\ val' = frames[GlobalEnv].bindings["x"]
               /\ val' # IntegerV(4)
      ]_vars

C12_Witness ==
    /\ mode = "ret" /\ stack = << >>
    /\ tree = ParallelLet
    /\ val = IntegerV(2)

\* the expression read at the prompt whose evaluation is under way or has
\* just ended
Program == IF stack = << >> THEN tree ELSE stack[1].tree

\* C13: (begin e1 ... en) with n >= 1 evaluates its operands in order in the
\* current frame and returns the value of the last one: the evaluation of
\* (begin 1) and of (begin (define x 2) x) does not fail, and returns 1 and 2.
C13_Begin ==
    /\ Program \in {BeginOne, BeginSingle} => mode # "panic"
    /\ (mode = "ret" /\ stack = << >> /\ tree = BeginOne) => val = IntegerV(1)
    /\ (mode = "ret" /\ stack = << >> /\ tree = BeginSingle) => val = IntegerV(2)

\* C14: (reduce list f init) folds the list from init: init on the empty
\* list, 15 for (reduce (list 1 2 3 4 5) + 0); neither evaluation fails.
C14_Reduce ==
    /\ Program \in {ReduceEmpty, ReduceSum} => mode # "panic"
    /\ (mode = "ret" /\ stack = << >> /\ tree = ReduceEmpty) => val = IntegerV(0)
    /\ (mode = "ret" /\ stack = << >> /\ tree = ReduceSum) => val = IntegerV(15)

\* C18: (map xs f) calls f on each element of xs in order, with that element
\* as only argument, and returns the list of the results, as long as xs; on
\* nil it returns nil without calling f; with the identity the result equals
\* xs; a first argument that is not a list fails.
C18_Map ==
    [][ /\ (/\ mode = "apply" /\ Top.k = "app" /\ Top.fn = BuiltInV("map")
             /\ Len(Top.args) = 2)
            => LET xs == Top.args[1]
                   f == Top.args[2]
               IN  IF xs.o # "List" THEN mode' = "panic"
                   ELSE IF ~IsFunction(f) THEN mode' = "panic"
                   ELSE IF xs.xs = << >>
                   THEN /\ mode' = "ret" /\ val' = ListV(<< >>)
                        /\ stack' = Pop /\ frames' = frames
                   ELSE /\ mode' = "apply" /\ frames' = frames
                        /\ Len(stack') = Len(stack) + 1
                        /\ stack'[Len(stack')].fn = f
                        /\ stack'[Len(stack')].args = <<xs.xs[1]>>
        /\ (mode = "ret" /\ stack # << >> /\ Top.k = "map")
            => LET xs == Top.args[1].xs
                   f == Top.args[2]
                   done == Len(Top.out) + 1
               IN  IF mode' = "ret"
                   THEN /\ done = Len(xs)
                        /\ stack' = Pop
                        /\ val'.o = "List"
                        /\ Len(val'.xs) = Len(xs)
                        /\ val'.xs[done] = val
                        /\ \A j \in 1..Len(Top.out) : val'.xs[j] = Top.out[j]
                        /\ f = BuiltInV("-")
                            => \A j \in 1..Len(xs) : val'.xs[j] = IntegerV(0 - xs[j].n)
                        /\ (f.o = "Lambda" /\ f.parameters = <<"a">> /\ f.body = Symbol("a"))
                            => val'.xs = xs
                   ELSE /\ done < Len(xs)
                        /\ mode' = "apply"
                        /\ Len(stack') = Len(stack) + 1
                        /\ stack'[Len(stack)].out = Append(Top.out, val)
                        /\ stack'[Len(stack')].fn = f
                        /\ stack'[Len(stack')].args = <<xs[done + 1]>>
        /\ (mode' = "ret" /\ stack' = << >> /\ tree' = MapNegate)
            => val' = ListV(<<IntegerV(-1), IntegerV(-2)>>)
        /\ (mode' = "ret" /\ stack' = << >> /\ tree' = MapIdentity)
            => val' = ListV(<<IntegerV(1), IntegerV(2)>>)
      ]_vars

C18_Witness ==
    /\ mode = "ret" /\ stack = << >>
    /\ tree = MapNegate
    /\ val = ListV(<<IntegerV(-1), IntegerV(-2)>>)

\* the number n of arguments is outside the arity of the built-in
OutsideArity(name, n) ==
    CASE name = "-" -> n < 1
      [] name \in {"/", "equal?", "<", "<=", ">", ">="} -> n < 2
      [] name \in {"car", "cdr", "list?", "length"} -> n # 1
      [] name \in {"list-ref", "map", "filter"} -> n # 2
      [] OTHER -> FALSE

\* C15: a built-in called with a number of arguments outside its arity fails.
C15_BuiltInArity ==
    [][ (/\ mode = "apply" /\ Top.fn.o = "BuiltIn"
         /\ OutsideArity(Top.fn.name, Len(Top.args)))
        => mode' = "panic" ]_vars

\* the elements of the lists, one list after the other
RECURSIVE Concat(_)
Concat(lists) == IF lists = << >> THEN << >> ELSE lists[1].xs \o Concat(Tail(lists))

\* the sum of the lengths of the lists
RECURSIVE TotalLength(_)
TotalLength(lists) ==
    IF lists = << >> THEN 0 ELSE Len(lists[1].xs) + TotalLength(Tail(lists))

\* C16: append returns the concatenation of its list arguments in order: its
\* length is the sum of their lengths, nil is a left and a right identity,
\* no argument gives nil, and an argument that is not a list fails.
C16_Append ==
    [][ (mode = "apply" /\ Top.fn = BuiltInV("append"))
        => LET args == Top.args
           IN  IF \E j \in DOMAIN args : args[j].o # "List"
               THEN mode' = "panic"
               ELSE /\ mode' = "ret" /\ stack' = Pop /\ frames' = frames
                    /\ val'.o = "List"
                    /\ Len(val'.xs) = TotalLength(args)
                    /\ val'.xs = Concat(args)
                    /\ args = << >> => val' = ListV(<< >>)
                    /\ (Len(args) = 2 /\ args[1] = ListV(<< >>)) => val' = args[2]
                    /\ (Len(args) = 2 /\ args[2] = ListV(<< >>)) => val' = args[1]
                    /\ Len(args) = 2
                        => /\ \A j \in 1..Len(args[1].xs) : val'.xs[j] = args[1].xs[j]
                           /\ \A j \in 1..Len(args[2].xs) :
                                val'.xs[Len(args[1].xs) + j] = args[2].xs[j]
      ]_vars

C16_Witness ==
    /\ mode = "ret" /\ stack = << >>
    /\ tree = Call("append", <<ListV(<<IntegerV(1), IntegerV(2)>>),
                               ListV(<<IntegerV(2)>>)>>)
    /\ val = ListV(<<IntegerV(1), IntegerV(2), IntegerV(2)>>)

\* C17: (list-ref xs i) returns the element of xs at the 0-based index i when
\* 0 <= i < length(xs), and fails when i is negative or i >= length(xs),
\* which is every index on the empty list.
C17_ListRef ==
    [][ (/\ mode = "apply" /\ Top.fn = BuiltInV("list-ref") /\ Len(Top.args) = 2
         /\ Top.args[1].o = "List" /\ Top.args[2].o = "Integer")
        => LET xs == Top.args[1].xs
               index == Top.args[2].n
           IN  IF 0 <= index /\ index < Len(xs)
               THEN /\ mode' = "ret" /\ stack' = Pop /\ frames' = frames
                    /\ val' = xs[index + 1]
               ELSE mode' = "panic"
      ]_vars

C17_Witness ==
    /\ mode = "ret" /\ stack = << >>
    /\ tree = Call("list-ref", <<ListV(<<IntegerV(1), IntegerV(2)>>), IntegerV(1)>>)
    /\ val = IntegerV(2)

\* C19: when the user enters the line exit at the prompt, the loop ends: the
\* line is not evaluated and no further prompt is printed.
C19_ExitEndsLoop ==
    input \in {ExitText, Line(ExitText)} => mode = "exit"

\* C20: when tokenizing, parsing or evaluating a line fails, the repl prints
\* a diagnostic and returns to the prompt: the loop keeps running.
C20_FailureReturnsToPrompt == (mode = "panic") ~> (mode = "idle")

\* the nesting depth after the first i tokens
Depth(ts, i) ==
    Cardinality({j \in 1..i : ts[j] = LeftParen})
        - Cardinality({j \in 1..i : ts[j] = RightParen})

\* ts is one complete balanced expression: one atom, or a list that opens
\* with the first token and closes with the last and not before
WellFormed(ts) ==
    /\ Len(ts) > 0
    /\ IF Len(ts) = 1 THEN ts[1].k \in {"Integer", "Symbol"}
       ELSE /\ ts[1] = LeftParen
            /\ \A i \in 1..(Len(ts) - 1) : Depth(ts, i) >= 1
            /\ Depth(ts, Len(ts)) = 0

\* the tokens an expression is written with
RECURSIVE TokensOf(_)
TokensOf(e) ==
    CASE e.t = "Integer" -> <<IntegerT(e.n)>>
      [] e.t = "Symbol" -> <<SymbolT(e.s)>>
      [] e.t = "List" ->
            <<LeftParen>> \o Flatten([j \in DOMAIN e.xs |-> TokensOf(e.xs[j])])
                \o <<RightParen>>

ParseFailures ==
    {"nothing to parse!",
     "unmatched right parenthesis while trying to parse expression",
     "missing right parenthesis while trying to parse expression",
     "did not parse expression completely"}

\* C21: parse returns the one expression its token sequence spells when
\* the sequence is one complete balanced expression, and fails on every
\* other sequence: the empty one, a right parenthesis where an expression
\* must start, a left parenthesis that is never closed, tokens left after
\* the first complete expression
C21_Parse ==
    [][mode = "parse" =>
        IF WellFormed(tokenized)
        THEN mode' = "eval" /\ TokensOf(tree') = tokenized
        ELSE mode' = "panic" /\ panicMsg' \in ParseFailures]_vars

\* parse has rejected tokens left after a complete expression
C21_Witness ==
    /\ mode = "panic"
    /\ panicMsg = "did not parse expression completely"
    /\ tokenized = <<LeftParen, RightParen, SymbolT("x")>>

\* the character at i lies in a comment: a semicolon at or before it on
\* the same line
InComment(source, i) ==
    \E j \in 1..i : source[j] = ";" /\ \A k \in j..i : source[k] # "\n"

\* the source with the characters of its comments blanked and its line
\* breaks kept
WithoutComments(source) ==
    [i \in DOMAIN source |-> IF InComment(source, i) THEN " " ELSE source[i]]

\* the words whitespace separates, parentheses being words of their own
Words(source) == split_whitespace(replace_parens(WithoutComments(source)))

\* C22: the tokens of a source are the tokens of its words, where every
\* whitespace character, a line break included, separates two words and a
\* comment takes away only the characters from its semicolon to the end
\* of its line: two words on consecutive lines are two tokens
C22_LineBreakSeparates ==
    [][mode = "tokenize" =>
        tokenized' = [j \in DOMAIN Words(input) |-> token_of(Words(input)[j])]]_vars

\* expression e holds a define of name s
RECURSIVE Defines(_, _)
Defines(e, s) ==
    /\ e.t = "List"
    /\ \/ (IsForm(e, "define") /\ Len(e.xs) > 1 /\ e.xs[2] = Symbol(s))
       \/ \E j \in DOMAIN e.xs : Defines(e.xs[j], s)

\* the activations of Function::call whose body runs in frame e
CallsIn(e) == {d \in DOMAIN stack : stack[d].k = "call" /\ stack[d].new_env = e}

\* C23: a set! in the body of a closure, on a variable that the closure
\* neither takes as a parameter nor defines and that its captured chain
\* binds, writes the frame of that chain itself: the frame of the call gets
\* no binding of its own, and no other binding changes.  The frame of a
\* call holds the parameters only and has the captured frame for its
\* parent, so later calls of this closure, other closures over the same
\* frame and later lookups in that frame read the value written.
C23_SetBangInClosure ==
    [][/\ (mode = "ret" /\ stack # << >> /\ Top.k = "set!") =>
            \A d \in CallsIn(Top.env) :
                LET s == Top.tree.xs[2].s
                    f == stack[d].fn
                    owner == Binder(frames, f.enclosing_frame, s)
                IN  (/\ \A j \in DOMAIN f.parameters : f.parameters[j] # s
                     /\ ~Defines(f.body, s)
                     /\ owner # None)
                    => /\ frames'[owner].bindings[s] = val
                       /\ frames'[Top.env].bindings[s] = NoBinding
                       /\ OnlyChanged(frames, frames', owner, s)
       /\ (mode = "apply" /\ Top.fn.o = "Lambda" /\ mode' = "eval") =>
            LET f == Top.fn
                new_env == frames'[Len(frames')]
            IN  /\ Len(frames') = Len(frames) + 1
                /\ new_env.parent_env = f.enclosing_frame
                /\ \A n \in Names :
                    (\A j \in DOMAIN f.parameters : f.parameters[j] # n)
                        => new_env.bindings[n] = NoBinding
                /\ \A g \in DOMAIN frames : frames'[g] = frames[g]
       /\ (mode' = "ret" /\ tree' = SharedCounter)
            => val' = ListV(<<IntegerV(2), IntegerV(2), IntegerV(3)>>)
       /\ (mode' = "ret" /\ tree' = GlobalSetter)
            => frames'[GlobalEnv].bindings["x"] = IntegerV(3)]_vars

\* the closure that increments the counter of the `let` frame was called
\* twice and the closure that reads it in between saw the first increment
C23_Witness ==
    /\ mode = "ret"
    /\ stack = << >>
    /\ tree = SharedCounter
    /\ val = ListV(<<IntegerV(2), IntegerV(2), IntegerV(3)>>)

\* the element count, head included, that each special form requires
FixedArityForms == {"define", "lambda", "let", "set!", "if", "del"}
Arity(form) ==
    CASE form \in {"define", "lambda", "let", "set!"} -> 3
      [] form = "if" -> 4
      [] form = "del" -> 2

\* C24: a special form whose element count, head included, is not its
\* arity (define, lambda, let and set! 3, if 4, del 2) fails before any of
\* its operands is evaluated and without a change of any frame.
C24_SpecialFormArity ==
    [][\A form \in FixedArityForms :
        (mode = "eval" /\ IsForm(tree, form) /\ Len(tree.xs) # Arity(form))
            => /\ mode' = "panic"
               /\ panicMsg' = BadArguments
               /\ frames' = frames
               /\ stack' = stack]_vars

\* an `if` of three elements failed and its condition, a define of b, was
\* not evaluated
C24_Witness ==
    /\ mode = "panic"
    /\ panicMsg = BadArguments
    /\ IsForm(tree, "if")
    /\ Len(tree.xs) = 3
    /\ tree.xs[2] = DefineB
    /\ \A g \in DOMAIN frames : frames[g].bindings["b"] = NoBinding

\* a `let` binding of the required shape: a list of a symbol and an
\* expression
BindingShape(def) == def.t = "List" /\ Len(def.xs) = 2 /\ def.xs[1].t = "Symbol"

\* C25: every binding of a `let` is a list of exactly two elements, a
\* symbol and an expression, and a binding of any other shape fails: no
\* expression of a binding of another shape is evaluated, and no body runs
\* in a frame made from such a binding.
C25_LetBindingShape ==
    \A d \in DOMAIN stack :
        /\ stack[d].k = "let" => BindingShape(stack[d].tree.xs[2].xs[stack[d].i])
        /\ stack[d].k = "let_body" =>
                \A j \in DOMAIN stack[d].tree.xs[2].xs :
                    BindingShape(stack[d].tree.xs[2].xs[j])

\* the names of a parameter list are distinct
Distinct(parameters) ==
    \A j, h \in DOMAIN parameters : parameters[j] = parameters[h] => j = h

\* C26: the function constructor accepts a parameter list of distinct
\* symbols only: a lambda with a parameter that is no symbol or with a name
\* given twice fails, so no closure with a repeated parameter name is ever
\* returned, bound or called.
C26_DistinctParameters ==
    /\ (mode = "ret" /\ val.o = "Lambda") => Distinct(val.parameters)
    /\ \A g \in DOMAIN frames : \A n \in Names :
            frames[g].bindings[n].o = "Lambda"
                => Distinct(frames[g].bindings[n].parameters)
    /\ \A d \in DOMAIN stack :
            stack[d].k = "call" => Distinct(stack[d].fn.parameters)

\* the bindings that a call of f on args starts with: each parameter bound
\* to the argument at its position, and no other name
ParametersOnly(bindings, f, args) ==
    \A n \in Names :
        IF \E j \in DOMAIN f.parameters : f.parameters[j] = n /\ j <= Len(args)
        THEN \E j \in DOMAIN f.parameters :
                f.parameters[j] = n /\ j <= Len(args) /\ bindings[n] = args[j]
        ELSE bindings[n] = NoBinding

\* C27: every invocation of a user closure runs in a frame of its own,
\* allocated by the call and holding the parameters only, so that nothing
\* bound by an earlier invocation is visible in it; the call and the return
\* leave the bindings of every other frame, those of the pending outer
\* invocations included, as they were.
C27_FreshFrame ==
    [][/\ (mode = "apply" /\ Top.fn.o = "Lambda" /\ mode' = "eval") =>
            /\ env' = Len(frames) + 1
            /\ DOMAIN frames' = 1..(Len(frames) + 1)
            /\ ParametersOnly(frames'[env'].bindings, Top.fn, Top.args)
            /\ \A g \in DOMAIN frames : frames'[g] = frames[g]
            /\ \A d \in DOMAIN stack' :
                    (d < Len(stack') /\ stack'[d].k \in {"call", "let_body"})
                        => stack'[d].new_env # env'
       /\ (mode = "ret" /\ stack # << >> /\ Top.k = "call") =>
            /\ env' = Top.env
            /\ \A g \in DOMAIN frames :
                    g # Top.new_env => frames'[g] = frames[g]
       /\ (mode' = "ret" /\ tree' = NestedCalls)
            => val' = ListV(<<IntegerV(0), IntegerV(1)>>)
       /\ (mode' = "ret" /\ stack' = << >>) => tree' # SuccessiveCalls]_vars

\* the closure is being invoked from inside its own invocation: the frame
\* of the inner call binds a to 0 and the frame of the outer one still
\* binds a to 1
C27_Witness ==
    \E c, d \in DOMAIN stack :
        /\ c < d
        /\ stack[c].k = "call" /\ stack[d].k = "call"
        /\ stack[c].fn = stack[d].fn
        /\ stack[c].new_env # stack[d].new_env
        /\ frames[stack[c].new_env].bindings["a"] = IntegerV(1)
        /\ frames[stack[d].new_env].bindings["a"] = IntegerV(0)

\* the names that frame e binds
BoundNames(fs, e) == {n \in Names : fs[e].bindings[n] # NoBinding}

\* the pending bodies of `let` and of closure calls
Bodies(st) == {st[d] : d \in {h \in DOMAIN st : st[h].k \in {"let_body", "call"}}}

\* C28: the bindings of a `let` and the parameters of a call do not leak:
\* from the step that enters the body of a `let` or of a closure to the
\* step that returns from it, no step changes the set of names bound in
\* the frame in which the `let` or the call was evaluated; a define in the
\* body binds in the child frame, and the return hands control back to the
\* enclosing frame.
C28_NoLeak ==
    [][/\ \A a \in Bodies(stack) \cup Bodies(stack') :
            BoundNames(frames', a.env) = BoundNames(frames, a.env)
       /\ (mode = "ret" /\ Len(stack) > 1 /\ Top.k = "define"
                /\ stack[Len(stack) - 1].k \in {"let_body", "call"}) =>
            LET body == stack[Len(stack) - 1]
                s == Top.tree.xs[2].s
            IN  /\ Top.env = body.new_env
                /\ frames'[body.new_env].bindings[s] = val
                /\ frames'[body.env].bindings[s] = frames[body.env].bindings[s]
       /\ (mode = "ret" /\ stack # << >> /\ Top.k \in {"let_body", "call"})
            => env' = Top.env /\ mode' = "ret"]_vars

\* a `let` whose body defines x has returned to the top level, and the
\* global frame binds neither x nor the y of the `let`
C28_Witness ==
    /\ mode = "ret"
    /\ stack = << >>
    /\ tree = LetDefine
    /\ frames[GlobalEnv].bindings["x"] = NoBinding
    /\ frames[GlobalEnv].bindings["y"] = NoBinding

\* C29: shadowing a built-in is reversible.  After (define n v) in the
\* global frame for a built-in name n a lookup of n yields v; a (del n) in
\* the global frame that finds the shadow removes it and n resolves to the
\* original built-in again; a (del n) that finds no shadow, the second one,
\* fails and changes nothing.
C29_ShadowingReversible ==
    [][/\ (mode = "ret" /\ stack # << >> /\ Top.k = "define"
                /\ Top.env = GlobalEnv /\ Top.tree.xs[2].s \in BuiltInNames)
            => get(frames', GlobalEnv, Top.tree.xs[2].s) = val
       /\ (mode = "eval" /\ IsForm(tree, "del") /\ Len(tree.xs) = 2
                /\ tree.xs[2].t = "Symbol" /\ env = GlobalEnv) =>
            LET n == tree.xs[2].s
            IN  n \in BuiltInNames =>
                    IF frames[GlobalEnv].bindings[n] # NoBinding
                    THEN /\ mode' = "ret"
                         /\ frames'[GlobalEnv].bindings[n] = NoBinding
                         /\ get(frames', GlobalEnv, n) = built_in_function_bindings[n]
                    ELSE /\ mode' = "panic"
                         /\ frames' = frames]_vars

\* C30: a failing set! or del changes nothing.  When (set! s e) fails
\* because no frame of the chain binds s, the frames are left as the
\* evaluation of e left them, and when (del s) fails because the current
\* frame does not bind s, also when an ancestor binds it, the frames are
\* left as they were.
C30_FailureChangesNothing ==
    [][/\ (mode = "ret" /\ stack # << >> /\ Top.k = "set!"
                /\ Binder(frames, Top.env, Top.tree.xs[2].s) = None)
            => /\ mode' = "panic"
               /\ panicMsg' = "variable does not exist in any environment!"
               /\ frames' = frames
       /\ (mode = "eval" /\ IsForm(tree, "del") /\ Len(tree.xs) = 2
                /\ tree.xs[2].t = "Symbol"
                /\ frames[env].bindings[tree.xs[2].s] = NoBinding)
            => /\ mode' = "panic"
               /\ panicMsg' = "variable not found in environment!"
               /\ frames' = frames]_vars

\* (set! z (define y 1)) has failed: the define of its expression bound y,
\* and z is bound nowhere
C30_Witness ==
    /\ mode = "panic"
    /\ panicMsg = "variable does not exist in any environment!"
    /\ Program = SetBangUnbound
    /\ frames[GlobalEnv].bindings["y"] = IntegerV(1)
    /\ \A g \in DOMAIN frames : frames[g].bindings["z"] = NoBinding

====
